---- MODULE Spec2Model ----
(***************************************************************************)
(* A model of the KCDB client library: the msl.kcdb navigators (KCDB,      *)
(* ChemistryBiology, GeneralPhysics, IonizingRadiation) and the kcdb       *)
(* package's static classes (CMCSearchData, ReferenceData).                *)
(*                                                                         *)
(* A caller makes a call; the call builds a request, the transport sends   *)
(* it, the server answers with a status and a payload, and the call ends   *)
(* by returning a value or raising.  The state records the last call, the  *)
(* requests it sent, the answers it received and how it ended, and the     *)
(* timeout the navigator holds.  Hierarchy walkers take their argument     *)
(* from the list the previous walker returned.                             *)
(***************************************************************************)
EXTENDS Integers, Sequences, FiniteSets, TLC

VARIABLES call, sent, received, result, _timeout

vars == <<call, sent, received, result, _timeout>>

(***************************************************************************)
(* Bounds of the model.                                                    *)
(***************************************************************************)
\* the number of keyword arguments one search call passes explicitly
MaxGiven == 2
\* the number of records in one reference-data answer of the server
MaxRecords == 2
\* the length of a sequence of countries
MaxCountries == 3
\* the length of a sequence of reference data passed to filter and to find
MaxItems == 3

(***************************************************************************)
(* Python values.  Every value a caller passes for a loosely typed         *)
(* parameter is a record tagged with its Python type in field t.           *)
(***************************************************************************)
None == [t |-> "None"]
Str(s) == [t |-> "str", s |-> s]
\* an int passed where a string or an entity is expected
PyInt(n) == [t |-> "int", n |-> n]
List(items) == [t |-> "list", items |-> items]
\* datetime.date, kept as the text str() gives for it
Date(iso) == [t |-> "date", iso |-> iso]

\* bool(v) as Python's `if v:` evaluates it
Truthy(v) ==
    CASE v.t = "None" -> FALSE
      [] v.t = "str" -> v.s # ""
      [] v.t = "int" -> v.n # 0
      [] v.t = "list" -> v.items # <<>>
      [] v.t = "dict" -> DOMAIN v.d # {}
      [] OTHER -> TRUE

\* str(v) for the values passed as publication dates
PyStr(v) ==
    CASE v.t = "str" -> v.s
      [] v.t = "date" -> v.iso
      [] v.t = "int" -> ToString(v.n)
      [] OTHER -> v.t

\* the classes with a label attribute (every ReferenceData subclass)
HasLabel(v) == "label" \in DOMAIN v
HasPhysicsCode(v) == "physics_code" \in DOMAIN v

\* the outcome of an expression that may raise
Ok(v) == [ok |-> TRUE, v |-> v]
Raise(exc, msg) == [ok |-> FALSE, exc |-> exc, msg |-> msg]

\* how a call ends
Returned(v) == [kind |-> "return", value |-> v]
Raised(exc, msg) == [kind |-> "raise", exc |-> exc, msg |-> msg]
\* what a call did: the requests it sent, in order, the answers to them,
\* and how it ended
Outcome(requests, responses, res) ==
    [sent |-> requests, received |-> responses, result |-> res]

\* a dict with key k set to v
Put(d, k, v) == [x \in (DOMAIN d) \cup {k} |-> IF x = k THEN v ELSE d[x]]
EmptyDict == [x \in {} |-> 0]

\* a keyword argument, or the default of the signature when it is not passed
Arg(kw, name, default) == IF name \in DOMAIN kw THEN kw[name] ELSE default

(***************************************************************************)
(* The transport and the server.  The server is an oracle: it answers a    *)
(* request with a status code and, for status 200, a JSON payload.         *)
(***************************************************************************)
StatusCodes == {200, 400, 404, 500}

Request(method, url, params, json) ==
    [method |-> method, url |-> url, params |-> params, json |-> json]

\* _Response.ok
ok(response) == response.status = 200

\* _Response.raise_for_status: the exception raised, or Ok
raise_for_status(response) ==
    IF 400 <= response.status /\ response.status < 500
    THEN Raise("HTTPException", "Client Error")
    ELSE IF 500 <= response.status /\ response.status < 600
    THEN Raise("HTTPException", "Server Error")
    ELSE Ok(None)

\* a variant of the setter of KCDB.timeout that takes 0 for no timeout
KCDB_timeout_NoZero(value) ==
    LET tenths == IF value.t = "int" THEN 10 * value.n ELSE value.tenths
    IN IF value = None \/ tenths <= 0 THEN None ELSE [t |-> "float", tenths |-> tenths]

\* the setter of KCDB.timeout: the value self._timeout gets.  A float is the
\* number of its tenths, and float(n) of an int n has 10 * n of them
KCDB_timeout(value) ==
    LET tenths == IF value.t = "int" THEN 10 * value.n ELSE value.tenths
    IN IF value = None \/ tenths < 0 THEN None ELSE [t |-> "float", tenths |-> tenths]

\* a variant of https._request that sends the request again when the first
\* one timed out
_request_Again(request, timeout, urlopen) ==
    LET wire == <<request @@ [timeout |-> timeout]>>
        seconds == IF timeout = None THEN "None"
                   ELSE ToString(timeout.tenths \div 10) \o "." \o ToString(timeout.tenths % 10)
    IN IF urlopen.exc \in {"", "HTTPError"}
       THEN [sent |-> wire, response |-> Ok(urlopen.response)]
       ELSE IF urlopen.str[2] # "timed out"
       THEN [sent |-> wire,
             response |-> Raise(urlopen.exc,
                                urlopen.str[1] \o urlopen.str[2] \o urlopen.str[3])]
       ELSE [sent |-> wire \o wire,
             response |-> Raise("TimeoutError",
                                "No reply from KCDB server after " \o seconds \o " seconds")]

\* a variant of https._request that sends every request with the default
\* timeout of 30 seconds
_request_DefaultTimeout(request, timeout, urlopen) ==
    LET wire == <<request @@ [timeout |-> [t |-> "float", tenths |-> 300]]>>
        seconds == IF timeout = None THEN "None"
                   ELSE ToString(timeout.tenths \div 10) \o "." \o ToString(timeout.tenths % 10)
    IN IF urlopen.exc \in {"", "HTTPError"}
       THEN [sent |-> wire, response |-> Ok(urlopen.response)]
       ELSE IF urlopen.str[2] # "timed out"
       THEN [sent |-> wire,
             response |-> Raise(urlopen.exc,
                                urlopen.str[1] \o urlopen.str[2] \o urlopen.str[3])]
       ELSE [sent |-> wire,
             response |-> Raise("TimeoutError",
                                "No reply from KCDB server after " \o seconds \o " seconds")]

\* https._request: what goes on the wire, and the _Response returned or the
\* exception raised.  urlopen is what urllib does with the request: it
\* returns a response, raises the HTTPError of an error status, or raises
\* another exception whose str(e) is the three parts of urlopen.str, the
\* middle one being "timed out" when the text holds these words
_request(request, timeout, urlopen) ==
    LET wire == <<request @@ [timeout |-> timeout]>>
        seconds == IF timeout = None THEN "None"
                   ELSE ToString(timeout.tenths \div 10) \o "." \o ToString(timeout.tenths % 10)
    IN IF urlopen.exc \in {"", "HTTPError"}
       THEN [sent |-> wire, response |-> Ok(urlopen.response)]
       ELSE IF urlopen.str[2] # "timed out"
       THEN [sent |-> wire,
             response |-> Raise(urlopen.exc,
                                urlopen.str[1] \o urlopen.str[2] \o urlopen.str[3])]
       ELSE [sent |-> wire,
             response |-> Raise("TimeoutError",
                                "No reply from KCDB server after " \o seconds \o " seconds")]

(***************************************************************************)
(* msl.kcdb.classes.KCDB: validation and normalisation of the parameters   *)
(***************************************************************************)
MAX_PAGE_SIZE == 10000

\* KCDB._check_page_info
_check_page_info(page, page_size) ==
    IF page < 0
    THEN Raise("ValueError", "Invalid page value, " \o ToString(page) \o ". Must be >= 0")
    ELSE IF page_size < 1 \/ page_size > MAX_PAGE_SIZE
    THEN Raise("ValueError", "Invalid page size, " \o ToString(page_size)
                             \o ". Must be in the range [1, " \o ToString(MAX_PAGE_SIZE) \o "]")
    ELSE Ok(None)

\* a variant of _to_label that reads the value of an entity, not its label
_to_label_Value(obj) ==
    IF obj.t = "str" THEN Ok(obj.s)
    ELSE IF HasLabel(obj) THEN Ok(obj.value)
    ELSE Raise("AttributeError", "label")

\* KCDB._to_label
_to_label(obj) ==
    IF obj.t = "str" THEN Ok(obj.s)
    ELSE IF HasLabel(obj) THEN Ok(obj.label)
    ELSE Raise("AttributeError", "label")

\* KCDB._to_physics_code
_to_physics_code(obj) ==
    IF obj.t = "str" THEN Ok(obj.s)
    ELSE IF HasPhysicsCode(obj) THEN Ok(obj.physics_code)
    ELSE Raise("AttributeError", "physics_code")

\* [c if isinstance(c, str) else c.label for c in countries]
LabelsOf(items) ==
    IF \E i \in 1..Len(items) : items[i].t # "str" /\ ~HasLabel(items[i])
    THEN Raise("AttributeError", "label")
    ELSE Ok([i \in 1..Len(items) |-> IF items[i].t = "str" THEN items[i].s ELSE items[i].label])

\* a variant of _to_countries without the branch of a single Country
_to_countries_NoCountry(countries) ==
    IF countries.t = "str" THEN Ok(<<countries.s>>)
    ELSE IF countries.t = "list" THEN LabelsOf(countries.items)
    ELSE Raise("TypeError", "object is not iterable")

\* KCDB._to_countries
_to_countries(countries) ==
    IF countries.t = "str" THEN Ok(<<countries.s>>)
    ELSE IF countries.t = "Country" THEN Ok(<<countries.label>>)
    ELSE IF countries.t = "list" THEN LabelsOf(countries.items)
    ELSE Raise("TypeError", "object is not iterable")

(***************************************************************************)
(* Building the JSON body of a search: a dict that grows key by key; the   *)
(* first conversion that raises ends the building.                         *)
(***************************************************************************)
NewRequest(page, page_size, show_table) ==
    [body |-> [page |-> page, pageSize |-> page_size, showTable |-> show_table],
     exc |-> "", msg |-> ""]

\* request[key] = r, where evaluating r may have raised
Assign(st, key, r) ==
    IF st.exc # "" THEN st
    ELSE IF r.ok THEN [st EXCEPT !.body = Put(@, key, r.v)]
    ELSE [st EXCEPT !.exc = r.exc, !.msg = r.msg]

\* if cond: request[key] = r
AssignIf(st, cond, key, r) == IF cond THEN Assign(st, key, r) ELSE st

\* requests.post(url, json=request); response.raise_for_status(); return Results(response.json())
PostAndParse(url, st, response, results) ==
    IF st.exc # "" THEN Outcome(<<>>, <<>>, Raised(st.exc, st.msg))
    ELSE LET req == Request("POST", url, EmptyDict, st.body)
             status == raise_for_status(response)
         IN IF status.ok
            THEN Outcome(<<req>>, <<response>>, Returned([t |-> results]))
            ELSE Outcome(<<req>>, <<response>>, Raised(status.exc, status.msg))

(***************************************************************************)
(* The reference entities (frozen dataclasses): a record per instance,     *)
(* tagged with its class; a child holds its parent by value.               *)
(***************************************************************************)
Domain(code, name) == [t |-> "Domain", code |-> code, name |-> name]

\* ReferenceData subclasses without a field of their own: cls(**data)
ReferenceData(cls, data) ==
    [t |-> cls, id |-> data.id, label |-> data.label, value |-> data.value]

MetrologyArea(domain, data) ==
    [t |-> "MetrologyArea", id |-> data.id, label |-> data.label, value |-> data.value,
     domain |-> domain]

Branch(metrology_area, data) ==
    [t |-> "Branch", id |-> data.id, label |-> data.label, value |-> data.value,
     metrology_area |-> metrology_area]

Service(branch, physics_code, data) ==
    [t |-> "Service", id |-> data.id, label |-> data.label, value |-> data.value,
     branch |-> branch, physics_code |-> physics_code]

SubService(service, physics_code, data) ==
    [t |-> "SubService", id |-> data.id, label |-> data.label, value |-> data.value,
     service |-> service, physics_code |-> physics_code]

IndividualService(sub_service, physics_code, data) ==
    [t |-> "IndividualService", id |-> data.id, label |-> data.label, value |-> data.value,
     sub_service |-> sub_service, physics_code |-> physics_code]

\* with a branch: Quantity, Medium, Source
BranchData(cls, branch, data) ==
    [t |-> cls, id |-> data.id, label |-> data.label, value |-> data.value,
     branch |-> branch]

\* a record of a reference-data answer
Data(id, label, value) == [id |-> id, label |-> label, value |-> value]

\* GeneralPhysics.DOMAIN, ChemistryBiology.DOMAIN, IonizingRadiation.DOMAIN
PHYSICS == Domain("PHYSICS", "General physics")
CHEM_BIO == Domain("CHEM-BIO", "Chemistry and Biology")
RADIATION == Domain("RADIATION", "Ionizing radiation")

\* the JSON value of a Python value placed in the body as it is
JsonOf(v) ==
    CASE v.t = "str" -> v.s
      [] v.t = "int" -> v.n
      [] v.t = "list" -> [i \in 1..Len(v.items) |->
                            IF v.items[i].t = "str" THEN v.items[i].s ELSE v.items[i]]
      [] OTHER -> v

\* list(iterable) of the quick-search filters
PyList(v) ==
    IF v.t = "list" THEN Ok([i \in 1..Len(v.items) |-> JsonOf(v.items[i])])
    ELSE Raise("TypeError", "object is not iterable")

\* a variant of a search that posts the body and checks the page information
\* afterwards
CheckedPost_PostFirst(check, url, st, response, results) ==
    LET out == PostAndParse(url, st, response, results)
    IN IF ~check.ok THEN Outcome(out.sent, out.received, Raised(check.exc, check.msg))
       ELSE out

\* a search: the check of the page information, then the POST of the body
CheckedPost(check, url, st, response, results) ==
    IF ~check.ok THEN Outcome(<<>>, <<>>, Raised(check.exc, check.msg))
    ELSE PostAndParse(url, st, response, results)

(***************************************************************************)
(* The searches of the msl.kcdb navigators.  kw holds the keyword          *)
(* arguments the caller passes, response the answer of the server to the   *)
(* POST, should one be sent.                                               *)
(***************************************************************************)
\* ChemistryBiology.search
ChemistryBiology_search(kw, response) ==
    LET analyte == Arg(kw, "analyte", None)
        category == Arg(kw, "category", None)
        countries == Arg(kw, "countries", None)
        keywords == Arg(kw, "keywords", None)
        metrology_area == Arg(kw, "metrology_area", Str("QM"))
        page == Arg(kw, "page", 0)
        page_size == Arg(kw, "page_size", 100)
        public_date_from == Arg(kw, "public_date_from", None)
        public_date_to == Arg(kw, "public_date_to", None)
        show_table == Arg(kw, "show_table", FALSE)
        check == _check_page_info(page, page_size)
        r0 == NewRequest(page, page_size, show_table)
        r1 == Assign(r0, "metrologyAreaLabel", _to_label(metrology_area))
        r2 == AssignIf(r1, analyte # None, "analyteLabel", _to_label(analyte))
        r3 == AssignIf(r2, Truthy(category), "categoryLabel", _to_label(category))
        r4 == AssignIf(r3, Truthy(countries), "countries", _to_countries(countries))
        r5 == AssignIf(r4, Truthy(keywords), "keywords", Ok(JsonOf(keywords)))
        r6 == AssignIf(r5, Truthy(public_date_from), "publicDateFrom", Ok(PyStr(public_date_from)))
        r7 == AssignIf(r6, Truthy(public_date_to), "publicDateTo", Ok(PyStr(public_date_to)))
    IN CheckedPost(check, "/cmc/searchData/chemistryAndBiology", r7, response,
                         "ResultsChemistryBiology")

\* GeneralPhysics.search
GeneralPhysics_search(kw, response) ==
    LET metrology_area == kw["metrology_area"]
        branch == Arg(kw, "branch", None)
        countries == Arg(kw, "countries", None)
        keywords == Arg(kw, "keywords", None)
        page == Arg(kw, "page", 0)
        page_size == Arg(kw, "page_size", 100)
        physics_code == Arg(kw, "physics_code", None)
        public_date_from == Arg(kw, "public_date_from", None)
        public_date_to == Arg(kw, "public_date_to", None)
        show_table == Arg(kw, "show_table", FALSE)
        check == _check_page_info(page, page_size)
        r0 == NewRequest(page, page_size, show_table)
        r1 == Assign(r0, "metrologyAreaLabel", _to_label(metrology_area))
        r2 == AssignIf(r1, Truthy(branch), "branchLabel", _to_label(branch))
        r3 == AssignIf(r2, Truthy(countries), "countries", _to_countries(countries))
        r4 == AssignIf(r3, Truthy(keywords), "keywords", Ok(JsonOf(keywords)))
        r5 == AssignIf(r4, Truthy(physics_code), "physicsCode", _to_physics_code(physics_code))
        r6 == AssignIf(r5, Truthy(public_date_from), "publicDateFrom", Ok(PyStr(public_date_from)))
        r7 == AssignIf(r6, Truthy(public_date_to), "publicDateTo", Ok(PyStr(public_date_to)))
    IN CheckedPost(check, "/cmc/searchData/physics", r7, response, "ResultsGeneralPhysics")

\* IonizingRadiation.search
IonizingRadiation_search(kw, response) ==
    LET branch == Arg(kw, "branch", None)
        countries == Arg(kw, "countries", None)
        keywords == Arg(kw, "keywords", None)
        medium == Arg(kw, "medium", None)
        metrology_area == Arg(kw, "metrology_area", Str("RI"))
        nuclide == Arg(kw, "nuclide", None)
        page == Arg(kw, "page", 0)
        page_size == Arg(kw, "page_size", 100)
        public_date_from == Arg(kw, "public_date_from", None)
        public_date_to == Arg(kw, "public_date_to", None)
        quantity == Arg(kw, "quantity", None)
        show_table == Arg(kw, "show_table", FALSE)
        source == Arg(kw, "source", None)
        check == _check_page_info(page, page_size)
        r0 == NewRequest(page, page_size, show_table)
        r1 == Assign(r0, "metrologyAreaLabel", _to_label(metrology_area))
        r2 == AssignIf(r1, Truthy(branch), "branchLabel", _to_label(branch))
        r3 == AssignIf(r2, Truthy(countries), "countries", _to_countries(countries))
        r4 == AssignIf(r3, Truthy(keywords), "keywords", Ok(JsonOf(keywords)))
        r5 == AssignIf(r4, Truthy(medium), "mediumLabel", _to_label(medium))
        r6 == AssignIf(r5, Truthy(nuclide), "nuclideLabel", _to_label(nuclide))
        r7 == AssignIf(r6, Truthy(public_date_from), "publicDateFrom", Ok(PyStr(public_date_from)))
        r8 == AssignIf(r7, Truthy(public_date_to), "publicDateTo", Ok(PyStr(public_date_to)))
        r9 == AssignIf(r8, Truthy(quantity), "quantityLabel", _to_label(quantity))
        r10 == AssignIf(r9, Truthy(source), "sourceLabel", _to_label(source))
    IN CheckedPost(check, "/cmc/searchData/radiation", r10, response, "ResultsIonizingRadiation")

\* KCDB.quick_search
KCDB_quick_search(kw, response) ==
    LET excluded_filters == Arg(kw, "excluded_filters", None)
        included_filters == Arg(kw, "included_filters", None)
        keywords == Arg(kw, "keywords", None)
        page == Arg(kw, "page", 0)
        page_size == Arg(kw, "page_size", 100)
        show_table == Arg(kw, "show_table", FALSE)
        check == _check_page_info(page, page_size)
        r0 == NewRequest(page, page_size, show_table)
        r1 == AssignIf(r0, Truthy(excluded_filters), "excludedFilters", PyList(excluded_filters))
        r2 == AssignIf(r1, Truthy(included_filters), "includedFilters", PyList(included_filters))
        r3 == AssignIf(r2, Truthy(keywords), "keywords", Ok(JsonOf(keywords)))
    IN CheckedPost(check, "/cmc/searchData/quickSearch", r3, response, "ResultsQuickSearch")

(***************************************************************************)
(* kcdb.cmc_search_data: the static searches of CMCSearchData.  They       *)
(* return the parsed JSON of the answer as a dict.                         *)
(***************************************************************************)
CMCSearchData_MAX_PAGE_SIZE == 10000

\* the page-size check that opens each CMCSearchData search
CheckPageSize(page_size) ==
    IF page_size > CMCSearchData_MAX_PAGE_SIZE
    THEN Raise("ValueError", "Page size, " \o ToString(page_size) \o ", too big. Must be <= "
                             \o ToString(CMCSearchData_MAX_PAGE_SIZE))
    ELSE Ok(None)

\* cmc_search_data._label
_label(obj) ==
    IF obj.t = "str" THEN Ok(obj.s)
    ELSE IF HasLabel(obj) THEN Ok(obj.label)
    ELSE Raise("AttributeError", "label")

\* cmc_search_data._countries
_countries(countries) ==
    IF countries.t = "str" THEN Ok(<<countries.s>>)
    ELSE IF countries.t = "Country" THEN Ok(<<countries.label>>)
    ELSE IF countries.t = "list" THEN LabelsOf(countries.items)
    ELSE Raise("TypeError", "object is not iterable")

\* CMCSearchData.chemistry_and_biology
CMCSearchData_chemistry_and_biology(kw, response) ==
    LET analyte_label == Arg(kw, "analyte_label", None)
        category_label == Arg(kw, "category_label", None)
        countries == Arg(kw, "countries", None)
        keywords == Arg(kw, "keywords", None)
        metrology_area_label == Arg(kw, "metrology_area_label", Str("QM"))
        page == Arg(kw, "page", 0)
        page_size == Arg(kw, "page_size", 10000)
        public_date_from == Arg(kw, "public_date_from", None)
        public_date_to == Arg(kw, "public_date_to", None)
        show_table == Arg(kw, "show_table", FALSE)
        check == CheckPageSize(page_size)
        r0 == NewRequest(page, page_size, show_table)
        r1 == Assign(r0, "metrologyAreaLabel", _label(metrology_area_label))
        r2 == AssignIf(r1, Truthy(analyte_label), "analyteLabel", _label(analyte_label))
        r3 == AssignIf(r2, Truthy(category_label), "categoryLabel", _label(category_label))
        r4 == AssignIf(r3, Truthy(countries), "countries", _countries(countries))
        r5 == AssignIf(r4, Truthy(keywords), "keywords", Ok(JsonOf(keywords)))
        r6 == AssignIf(r5, Truthy(public_date_from), "publicDateFrom", Ok(PyStr(public_date_from)))
        r7 == AssignIf(r6, Truthy(public_date_to), "publicDateTo", Ok(PyStr(public_date_to)))
    IN CheckedPost(check, "/cmc/searchData/chemistryAndBiology", r7, response, "dict")

\* CMCSearchData.physics
CMCSearchData_physics(kw, response) ==
    LET metrology_area_label == kw["metrology_area_label"]
        branch_label == Arg(kw, "branch_label", None)
        countries == Arg(kw, "countries", None)
        keywords == Arg(kw, "keywords", None)
        page == Arg(kw, "page", 0)
        page_size == Arg(kw, "page_size", 100)
        physics_code == Arg(kw, "physics_code", None)
        public_date_from == Arg(kw, "public_date_from", None)
        public_date_to == Arg(kw, "public_date_to", None)
        show_table == Arg(kw, "show_table", FALSE)
        check == CheckPageSize(page_size)
        r0 == NewRequest(page, page_size, show_table)
        r1 == Assign(r0, "metrologyAreaLabel", _label(metrology_area_label))
        r2 == AssignIf(r1, Truthy(branch_label), "branchLabel", _label(branch_label))
        r3 == AssignIf(r2, Truthy(countries), "countries", _countries(countries))
        r4 == AssignIf(r3, Truthy(keywords), "keywords", Ok(JsonOf(keywords)))
        r5 == AssignIf(r4, Truthy(physics_code), "physicsCode", _to_physics_code(physics_code))
        r6 == AssignIf(r5, Truthy(public_date_from), "publicDateFrom", Ok(PyStr(public_date_from)))
        r7 == AssignIf(r6, Truthy(public_date_to), "publicDateTo", Ok(PyStr(public_date_to)))
    IN CheckedPost(check, "/cmc/searchData/physics", r7, response, "dict")

\* CMCSearchData.quick_search
CMCSearchData_quick_search(kw, response) ==
    LET excluded_filters == Arg(kw, "excluded_filters", None)
        included_filters == Arg(kw, "included_filters", None)
        keywords == Arg(kw, "keywords", None)
        page == Arg(kw, "page", 0)
        page_size == Arg(kw, "page_size", 100)
        show_table == Arg(kw, "show_table", FALSE)
        check == CheckPageSize(page_size)
        r0 == NewRequest(page, page_size, show_table)
        r1 == AssignIf(r0, Truthy(excluded_filters), "excludedFilters", Ok(JsonOf(excluded_filters)))
        r2 == AssignIf(r1, Truthy(included_filters), "includedFilters", Ok(JsonOf(included_filters)))
        r3 == AssignIf(r2, Truthy(keywords), "keywords", Ok(JsonOf(keywords)))
    IN CheckedPost(check, "/cmc/searchData/quickSearch", r3, response, "dict")

\* CMCSearchData.radiation
CMCSearchData_radiation(kw, response) ==
    LET branch_label == Arg(kw, "branch_label", None)
        countries == Arg(kw, "countries", None)
        keywords == Arg(kw, "keywords", None)
        medium_label == Arg(kw, "medium_label", None)
        metrology_area_label == Arg(kw, "metrology_area_label", Str("RI"))
        nuclide_label == Arg(kw, "nuclide_label", None)
        page == Arg(kw, "page", 0)
        page_size == Arg(kw, "page_size", 100)
        public_date_from == Arg(kw, "public_date_from", None)
        public_date_to == Arg(kw, "public_date_to", None)
        quantity_label == Arg(kw, "quantity_label", None)
        show_table == Arg(kw, "show_table", FALSE)
        source_label == Arg(kw, "source_label", None)
        check == CheckPageSize(page_size)
        r0 == NewRequest(page, page_size, show_table)
        r1 == Assign(r0, "metrologyAreaLabel", _label(metrology_area_label))
        r2 == AssignIf(r1, Truthy(branch_label), "branchLabel", _label(branch_label))
        r3 == AssignIf(r2, Truthy(countries), "countries", _countries(countries))
        r4 == AssignIf(r3, Truthy(keywords), "keywords", Ok(JsonOf(keywords)))
        r5 == AssignIf(r4, Truthy(medium_label), "mediumLabel", _label(medium_label))
        r6 == AssignIf(r5, Truthy(nuclide_label), "nuclideLabel", _label(nuclide_label))
        r7 == AssignIf(r6, Truthy(public_date_from), "publicDateFrom", Ok(PyStr(public_date_from)))
        r8 == AssignIf(r7, Truthy(public_date_to), "publicDateTo", Ok(PyStr(public_date_to)))
        r9 == AssignIf(r8, Truthy(quantity_label), "quantityLabel", _label(quantity_label))
        r10 == AssignIf(r9, Truthy(source_label), "sourceLabel", _label(source_label))
    IN CheckedPost(check, "/cmc/searchData/radiation", r10, response, "dict")

(***************************************************************************)
(* The hierarchy walkers of GeneralPhysics.  response is the answer of the *)
(* server to the GET, should one be sent; a 200 answer carries             *)
(* {"referenceData": [...]}.                                               *)
(***************************************************************************)
\* requests.get(url, params=params)
Get(url, params) == Request("GET", url, params, None)

\* f"{parent.physics_code}.{data['label']}"
DotJoin(physics_code, segment) == physics_code \o "." \o segment

\* GeneralPhysics.services.  Service(branch=..., physics_code=..., **data)
\* passes every key of the record as a keyword argument: the dataclass takes
\* id, label and value, and any other key is a TypeError
GeneralPhysics_services(branch, response) ==
    IF branch.id \in {32, 33, 34} THEN Outcome(<<>>, <<>>, Returned(<<>>))
    ELSE LET req == Get("/referenceData/service", [branchId |-> branch.id])
             status == raise_for_status(response)
             data == response.json.referenceData
         IN IF ~status.ok THEN Outcome(<<req>>, <<response>>, Raised(status.exc, status.msg))
            ELSE IF \E i \in 1..Len(data) : DOMAIN data[i] # {"id", "label", "value"}
            THEN Outcome(<<req>>, <<response>>,
                         Raised("TypeError", "unexpected keyword argument"))
            ELSE Outcome(<<req>>, <<response>>,
                         Returned([i \in 1..Len(data) |->
                                     Service(branch, data[i].label, data[i])]))

\* a variant of GeneralPhysics.sub_services whose nodes hold a service that
\* has lost its branch
GeneralPhysics_sub_services_NoBranch(service, response) ==
    LET req == Get("/referenceData/subService", [serviceId |-> service.id])
        status == raise_for_status(response)
        data == response.json.referenceData
    IN IF ~status.ok THEN Outcome(<<req>>, <<response>>, Raised(status.exc, status.msg))
       ELSE Outcome(<<req>>, <<response>>,
                    Returned([i \in 1..Len(data) |->
                                SubService([service EXCEPT !.branch = None],
                                           DotJoin(service.physics_code, data[i].label),
                                           data[i])]))

\* GeneralPhysics.sub_services
GeneralPhysics_sub_services(service, response) ==
    LET req == Get("/referenceData/subService", [serviceId |-> service.id])
        status == raise_for_status(response)
        data == response.json.referenceData
    IN IF ~status.ok THEN Outcome(<<req>>, <<response>>, Raised(status.exc, status.msg))
       ELSE Outcome(<<req>>, <<response>>,
                    Returned([i \in 1..Len(data) |->
                                SubService(service, DotJoin(service.physics_code, data[i].label),
                                           data[i])]))

\* a variant of GeneralPhysics.individual_services without the assertion
GeneralPhysics_individual_services_NoAssert(sub_service, response) ==
    LET req == Get("/referenceData/individualService", [subServiceId |-> sub_service.id])
        data == response.json.referenceData
    IN IF ok(response)
       THEN Outcome(<<req>>, <<response>>,
                    Returned([i \in 1..Len(data) |->
                                IndividualService(sub_service,
                                                  DotJoin(sub_service.physics_code, data[i].label),
                                                  data[i])]))
       ELSE Outcome(<<req>>, <<response>>, Returned(<<>>))

\* GeneralPhysics.individual_services
GeneralPhysics_individual_services(sub_service, response) ==
    LET req == Get("/referenceData/individualService", [subServiceId |-> sub_service.id])
        data == response.json.referenceData
    IN IF ok(response)
       THEN Outcome(<<req>>, <<response>>,
                    Returned([i \in 1..Len(data) |->
                                IndividualService(sub_service,
                                                  DotJoin(sub_service.physics_code, data[i].label),
                                                  data[i])]))
       ELSE IF sub_service.id \in {104, 151} THEN Outcome(<<req>>, <<response>>, Returned(<<>>))
       ELSE Outcome(<<req>>, <<response>>, Raised("AssertionError", ""))

\* JSON null (Python None) in the label of a record: a value that is no label
Null == "<null>"

\* a variant of GeneralPhysics.branches that skips the Chemistry area only
GeneralPhysics_branches_NoSkip(metrology_area, response) ==
    IF metrology_area.label \in {"QM"} THEN Outcome(<<>>, <<>>, Returned(<<>>))
    ELSE LET req == Get("/referenceData/branch", [areaId |-> metrology_area.id])
             status == raise_for_status(response)
             data == response.json.referenceData
         IN IF ~status.ok THEN Outcome(<<req>>, <<response>>, Raised(status.exc, status.msg))
            ELSE Outcome(<<req>>, <<response>>,
                         Returned([i \in 1..Len(data) |-> Branch(metrology_area, data[i])]))

\* GeneralPhysics.branches
GeneralPhysics_branches(metrology_area, response) ==
    IF metrology_area.label \in {"QM", "RI"} THEN Outcome(<<>>, <<>>, Returned(<<>>))
    ELSE LET req == Get("/referenceData/branch", [areaId |-> metrology_area.id])
             status == raise_for_status(response)
             data == response.json.referenceData
         IN IF ~status.ok THEN Outcome(<<req>>, <<response>>, Raised(status.exc, status.msg))
            ELSE Outcome(<<req>>, <<response>>,
                         Returned([i \in 1..Len(data) |-> Branch(metrology_area, data[i])]))

(***************************************************************************)
(* msl.kcdb.ionizing_radiation: the lookups of IonizingRadiation.  The     *)
(* endpoints of mediums, sources and quantities take no parameter: the     *)
(* records of the answer are kept by the range of their id.                *)
(***************************************************************************)
\* a variant of IonizingRadiation.branches that decides on the label
IonizingRadiation_branches_ByLabel(metrology_area, response) ==
    IF metrology_area.label # "RI" THEN Outcome(<<>>, <<>>, Returned(<<>>))
    ELSE LET req == Get("/referenceData/branch", [areaId |-> metrology_area.id])
             status == raise_for_status(response)
             data == response.json.referenceData
         IN IF ~status.ok THEN Outcome(<<req>>, <<response>>, Raised(status.exc, status.msg))
            ELSE Outcome(<<req>>, <<response>>,
                         Returned([i \in 1..Len(data) |-> Branch(metrology_area, data[i])]))

\* IonizingRadiation.branches
IonizingRadiation_branches(metrology_area, response) ==
    IF metrology_area.id < 9 THEN Outcome(<<>>, <<>>, Returned(<<>>))
    ELSE LET req == Get("/referenceData/branch", [areaId |-> metrology_area.id])
             status == raise_for_status(response)
             data == response.json.referenceData
         IN IF ~status.ok THEN Outcome(<<req>>, <<response>>, Raised(status.exc, status.msg))
            ELSE Outcome(<<req>>, <<response>>,
                         Returned([i \in 1..Len(data) |-> Branch(metrology_area, data[i])]))

\* a variant of IonizingRadiation.mediums without the test of the label
IonizingRadiation_mediums_NoSkip(branch, response) ==
    LET req == Get("/referenceData/radiationMedium", None)
        status == raise_for_status(response)
        data == response.json.referenceData
        kept == IF branch.label = "RAD" THEN SelectSeq(data, LAMBDA d : d.id < 17)
                ELSE IF branch.label = "DOS"
                THEN SelectSeq(data, LAMBDA d : 17 <= d.id /\ d.id < 24)
                ELSE SelectSeq(data, LAMBDA d : d.id >= 24)
    IN IF ~status.ok THEN Outcome(<<req>>, <<response>>, Raised(status.exc, status.msg))
       ELSE Outcome(<<req>>, <<response>>,
                    Returned([i \in 1..Len(kept) |-> BranchData("Medium", branch, kept[i])]))

\* a variant of IonizingRadiation.mediums with id 17 in the range of RAD
IonizingRadiation_mediums_Upto17(branch, response) ==
    IF branch.label \notin {"RAD", "DOS", "NEU"} THEN Outcome(<<>>, <<>>, Returned(<<>>))
    ELSE LET req == Get("/referenceData/radiationMedium", None)
             status == raise_for_status(response)
             data == response.json.referenceData
             kept == IF branch.label = "RAD" THEN SelectSeq(data, LAMBDA d : d.id <= 17)
                     ELSE IF branch.label = "DOS"
                     THEN SelectSeq(data, LAMBDA d : 17 <= d.id /\ d.id < 24)
                     ELSE SelectSeq(data, LAMBDA d : d.id >= 24)
         IN IF ~status.ok THEN Outcome(<<req>>, <<response>>, Raised(status.exc, status.msg))
            ELSE Outcome(<<req>>, <<response>>,
                         Returned([i \in 1..Len(kept) |-> BranchData("Medium", branch, kept[i])]))

\* IonizingRadiation.mediums
IonizingRadiation_mediums(branch, response) ==
    IF branch.label \notin {"RAD", "DOS", "NEU"} THEN Outcome(<<>>, <<>>, Returned(<<>>))
    ELSE LET req == Get("/referenceData/radiationMedium", None)
             status == raise_for_status(response)
             data == response.json.referenceData
             kept == IF branch.label = "RAD" THEN SelectSeq(data, LAMBDA d : d.id < 17)
                     ELSE IF branch.label = "DOS"
                     THEN SelectSeq(data, LAMBDA d : 17 <= d.id /\ d.id < 24)
                     ELSE SelectSeq(data, LAMBDA d : d.id >= 24)
         IN IF ~status.ok THEN Outcome(<<req>>, <<response>>, Raised(status.exc, status.msg))
            ELSE Outcome(<<req>>, <<response>>,
                         Returned([i \in 1..Len(kept) |-> BranchData("Medium", branch, kept[i])]))

\* a variant of IonizingRadiation.quantities without the upper end of the range of NEU
IonizingRadiation_quantities_NoUpper(branch, response) ==
    IF branch.label \notin {"RAD", "DOS", "NEU"} THEN Outcome(<<>>, <<>>, Returned(<<>>))
    ELSE LET req == Get("/referenceData/quantity", None)
             status == raise_for_status(response)
             data == response.json.referenceData
             kept == IF branch.label = "DOS" THEN SelectSeq(data, LAMBDA d : d.id < 32)
                     ELSE IF branch.label = "RAD"
                     THEN SelectSeq(data, LAMBDA d : 32 <= d.id /\ d.id < 47)
                     ELSE SelectSeq(data, LAMBDA d : 47 <= d.id)
         IN IF ~status.ok THEN Outcome(<<req>>, <<response>>, Raised(status.exc, status.msg))
            ELSE Outcome(<<req>>, <<response>>,
                         Returned([i \in 1..Len(kept) |->
                                     BranchData("Quantity", branch, kept[i])]))

\* IonizingRadiation.quantities
IonizingRadiation_quantities(branch, response) ==
    IF branch.label \notin {"RAD", "DOS", "NEU"} THEN Outcome(<<>>, <<>>, Returned(<<>>))
    ELSE LET req == Get("/referenceData/quantity", None)
             status == raise_for_status(response)
             data == response.json.referenceData
             kept == IF branch.label = "DOS" THEN SelectSeq(data, LAMBDA d : d.id < 32)
                     ELSE IF branch.label = "RAD"
                     THEN SelectSeq(data, LAMBDA d : 32 <= d.id /\ d.id < 47)
                     ELSE SelectSeq(data, LAMBDA d : 47 <= d.id /\ d.id < 78)
         IN IF ~status.ok THEN Outcome(<<req>>, <<response>>, Raised(status.exc, status.msg))
            ELSE Outcome(<<req>>, <<response>>,
                         Returned([i \in 1..Len(kept) |->
                                     BranchData("Quantity", branch, kept[i])]))

\* a variant of IonizingRadiation.sources with the ranges of DOS and RAD swapped
IonizingRadiation_sources_Swapped(branch, response) ==
    IF branch.label \notin {"RAD", "DOS", "NEU"} THEN Outcome(<<>>, <<>>, Returned(<<>>))
    ELSE LET req == Get("/referenceData/radiationSource", None)
             status == raise_for_status(response)
             data == response.json.referenceData
             kept == IF branch.label = "RAD" THEN SelectSeq(data, LAMBDA d : d.id < 32)
                     ELSE IF branch.label = "DOS"
                     THEN SelectSeq(data, LAMBDA d : 32 <= d.id /\ d.id < 35)
                     ELSE SelectSeq(data, LAMBDA d : d.id >= 35)
         IN IF ~status.ok THEN Outcome(<<req>>, <<response>>, Raised(status.exc, status.msg))
            ELSE Outcome(<<req>>, <<response>>,
                         Returned([i \in 1..Len(kept) |-> BranchData("Source", branch, kept[i])]))

\* IonizingRadiation.sources
IonizingRadiation_sources(branch, response) ==
    IF branch.label \notin {"RAD", "DOS", "NEU"} THEN Outcome(<<>>, <<>>, Returned(<<>>))
    ELSE LET req == Get("/referenceData/radiationSource", None)
             status == raise_for_status(response)
             data == response.json.referenceData
             kept == IF branch.label = "DOS" THEN SelectSeq(data, LAMBDA d : d.id < 32)
                     ELSE IF branch.label = "RAD"
                     THEN SelectSeq(data, LAMBDA d : 32 <= d.id /\ d.id < 35)
                     ELSE SelectSeq(data, LAMBDA d : d.id >= 35)
         IN IF ~status.ok THEN Outcome(<<req>>, <<response>>, Raised(status.exc, status.msg))
            ELSE Outcome(<<req>>, <<response>>,
                         Returned([i \in 1..Len(kept) |-> BranchData("Source", branch, kept[i])]))

\* KCDB.non_ionizing_quantities
KCDB_non_ionizing_quantities(response) ==
    LET req == Get("/referenceData/quantity", None)
        status == raise_for_status(response)
        data == response.json.referenceData
        kept == SelectSeq(data, LAMBDA d : d.label = Null)
    IN IF ~status.ok THEN Outcome(<<req>>, <<response>>, Raised(status.exc, status.msg))
       ELSE Outcome(<<req>>, <<response>>,
                    Returned([i \in 1..Len(kept) |->
                                ReferenceData("NonIonizingQuantity",
                                              Data(kept[i].id, "", kept[i].value))]))

\* KCDB.metrology_areas of the navigator whose domain is DOMAIN
KCDB_metrology_areas(DOMAIN_, response) ==
    LET req == Get("/referenceData/metrologyArea", [domainCode |-> DOMAIN_.code])
        status == raise_for_status(response)
        data == response.json.referenceData
    IN IF ~status.ok THEN Outcome(<<req>>, <<response>>, Raised(status.exc, status.msg))
       ELSE Outcome(<<req>>, <<response>>,
                    Returned([i \in 1..Len(data) |-> MetrologyArea(DOMAIN_, data[i])]))

(***************************************************************************)
(* kcdb.reference_data: the static walkers of ReferenceData.               *)
(***************************************************************************)
\* ReferenceData.branches
ReferenceData_branches(metrology_area, response) ==
    LET req == Get("/referenceData/branch", [areaId |-> metrology_area.id])
        data == response.json.referenceData
    IN IF ok(response)
       THEN Outcome(<<req>>, <<response>>,
                    Returned([i \in 1..Len(data) |-> Branch(metrology_area, data[i])]))
       ELSE IF metrology_area.id \in {8} THEN Outcome(<<req>>, <<response>>, Returned(<<>>))
       ELSE Outcome(<<req>>, <<response>>, Raised("AssertionError", ""))

\* ReferenceData.services
ReferenceData_services(branch, response) ==
    LET req == Get("/referenceData/service", [branchId |-> branch.id])
        data == response.json.referenceData
    IN IF ok(response)
       THEN IF \E i \in 1..Len(data) : DOMAIN data[i] # {"id", "label", "value"}
            THEN Outcome(<<req>>, <<response>>,
                         Raised("TypeError", "unexpected keyword argument"))
            ELSE Outcome(<<req>>, <<response>>,
                         Returned([i \in 1..Len(data) |->
                                     Service(branch, ToString(data[i].id), data[i])]))
       ELSE IF branch.id \in {32, 33, 34} THEN Outcome(<<req>>, <<response>>, Returned(<<>>))
       ELSE Outcome(<<req>>, <<response>>, Raised("AssertionError", ""))

\* ReferenceData.sub_services
ReferenceData_sub_services(service, response) ==
    LET req == Get("/referenceData/subService", [serviceId |-> service.id])
        status == raise_for_status(response)
        data == response.json.referenceData
    IN IF ~status.ok THEN Outcome(<<req>>, <<response>>, Raised(status.exc, status.msg))
       ELSE Outcome(<<req>>, <<response>>,
                    Returned([i \in 1..Len(data) |->
                                SubService(service,
                                           DotJoin(service.physics_code, ToString(data[i].id)),
                                           data[i])]))

\* ReferenceData.individual_services
ReferenceData_individual_services(sub_service, response) ==
    LET req == Get("/referenceData/individualService", [subServiceId |-> sub_service.id])
        data == response.json.referenceData
    IN IF ok(response)
       THEN Outcome(<<req>>, <<response>>,
                    Returned([i \in 1..Len(data) |->
                                IndividualService(sub_service,
                                                  DotJoin(sub_service.physics_code,
                                                          ToString(data[i].id)),
                                                  data[i])]))
       ELSE IF sub_service.id \in {104, 151} THEN Outcome(<<req>>, <<response>>, Returned(<<>>))
       ELSE Outcome(<<req>>, <<response>>, Raised("AssertionError", ""))

\* ReferenceData.quantities
ReferenceData_quantities(response) ==
    LET req == Get("/referenceData/quantity", None)
        status == raise_for_status(response)
        data == response.json.referenceData
    IN IF ~status.ok THEN Outcome(<<req>>, <<response>>, Raised(status.exc, status.msg))
       ELSE Outcome(<<req>>, <<response>>,
                    Returned([i \in 1..Len(data) |->
                                ReferenceData("Quantity",
                                              IF data[i].label = Null
                                              THEN [data[i] EXCEPT !.label = ""]
                                              ELSE data[i])]))

(***************************************************************************)
(* The values a caller passes.  Entities are the ones the walkers and the  *)
(* reference-data lookups return.                                          *)
(***************************************************************************)
EM == MetrologyArea(PHYSICS, Data(2, "EM", "Electricity and Magnetism"))
L == MetrologyArea(PHYSICS, Data(3, "L", "Length"))
TF == MetrologyArea(PHYSICS, Data(7, "TF", "Time and Frequency"))
QM == MetrologyArea(CHEM_BIO, Data(8, "QM", "Chemistry and Biology"))
RI == MetrologyArea(RADIATION, Data(9, "RI", "Ionizing Radiation"))

EM_RF == Branch(EM, Data(10, "EM/RF", "Radio frequency measurements"))
L_DimMet == Branch(L, Data(12, "L/DimMet", "Dimensional metrology"))
TF_F == Branch(TF, Data(27, "TF/F", "Frequency"))
DOS == Branch(RI, Data(32, "DOS", "Dosimetry"))
RAD == Branch(RI, Data(33, "RAD", "Radioactivity"))
NEU == Branch(RI, Data(34, "NEU", "Neutron Measurements"))

FR == ReferenceData("Country", Data(29, "FR", "France"))
NZ == ReferenceData("Country", Data(58, "NZ", "New Zealand"))
Antimony == ReferenceData("Analyte", Data(7, "antimony", "Antimony (Sb)"))

Frequency == Service(TF_F, "2", Data(55, "2", "Frequency"))
FrequencyMeter == SubService(Frequency, "2.3", Data(218, "3", "Frequency meter"))
FrequencyCounter == IndividualService(FrequencyMeter, "2.3.1", Data(546, "1", "Frequency counter"))

\* a string-or-entity parameter: absent, empty, a label, an entity, and
\* two values that are neither (one falsy, one truthy)
LabelValues(s, e) == {None, Str(""), Str(s), e, PyInt(0), PyInt(5)}

CountriesValues ==
    {None, Str(""), Str("CH"), FR, List(<<>>), List(<<Str("CH"), FR, Str("JP")>>), PyInt(5)}
KeywordsValues == {None, Str(""), Str("phase OR test")}
PageValues == {-1, 0, 1}
PageSizeValues == {0, 1, 100, 10000, 10001}
DateValues == {None, Str(""), Str("2005-01-31"), Date("2024-06-30")}
FilterValues == {None, List(<<>>), List(<<Str("cmcDomain.CHEM-BIO"), Str("cmcServices.AC power")>>)}
PhysicsCodeValues ==
    {None, Str(""), Str("11.3.3"), Frequency, FrequencyMeter, FrequencyCounter,
     TF_F, PyInt(0), PyInt(5)}

\* the keyword arguments of each search and the values tried for each
ChemistryBiologyParams ==
    [analyte |-> LabelValues("antimony", Antimony),
     category |-> LabelValues("5", ReferenceData("Category", Data(2, "10", "Biological fluids and materials"))),
     countries |-> CountriesValues,
     keywords |-> KeywordsValues,
     metrology_area |-> LabelValues("QM", QM) \ {None},
     page |-> PageValues,
     page_size |-> PageSizeValues,
     public_date_from |-> DateValues,
     public_date_to |-> DateValues,
     show_table |-> BOOLEAN]

GeneralPhysicsParams ==
    [branch |-> LabelValues("EM/RF", EM_RF),
     countries |-> CountriesValues,
     keywords |-> KeywordsValues,
     page |-> PageValues,
     page_size |-> PageSizeValues,
     physics_code |-> PhysicsCodeValues,
     public_date_from |-> DateValues,
     public_date_to |-> DateValues,
     show_table |-> BOOLEAN]

IonizingRadiationParams ==
    [branch |-> LabelValues("RAD", RAD),
     countries |-> CountriesValues,
     keywords |-> KeywordsValues,
     medium |-> LabelValues("3", BranchData("Medium", RAD, Data(13, "3", "Reference material: fauna"))),
     metrology_area |-> LabelValues("RI", RI) \ {None},
     nuclide |-> LabelValues("Co-60", ReferenceData("Nuclide", Data(3, "Ce-144", "Cerium-144"))),
     page |-> PageValues,
     page_size |-> PageSizeValues,
     public_date_from |-> DateValues,
     public_date_to |-> DateValues,
     quantity |-> LabelValues("1", BranchData("Quantity", RAD, Data(32, "1", "Activity"))),
     show_table |-> BOOLEAN,
     source |-> LabelValues("2", BranchData("Source", RAD, Data(34, "2", "Electrons")))]

QuickSearchParams ==
    [excluded_filters |-> FilterValues,
     included_filters |-> FilterValues,
     keywords |-> KeywordsValues,
     page |-> PageValues,
     page_size |-> PageSizeValues,
     show_table |-> BOOLEAN]

\* the positional metrology area of the physics searches
MetrologyAreaValues == {None, Str(""), Str("EM"), EM, PyInt(5)}

\* every way of passing the keywords of `names`, one value each
RECURSIVE KwargsOver(_, _)
KwargsOver(params, names) ==
    IF names = {} THEN {EmptyDict}
    ELSE LET p == CHOOSE p \in names : TRUE
         IN {Put(kw, p, v) : kw \in KwargsOver(params, names \ {p}), v \in params[p]}

\* the sets of at most MaxGiven keywords a call may pass
Given(params) == {g \in SUBSET DOMAIN params : Cardinality(g) <= MaxGiven}

\* the same call with the legacy keyword names of CMCSearchData
Legacy(name) ==
    CASE name = "analyte" -> "analyte_label"
      [] name = "branch" -> "branch_label"
      [] name = "category" -> "category_label"
      [] name = "medium" -> "medium_label"
      [] name = "metrology_area" -> "metrology_area_label"
      [] name = "nuclide" -> "nuclide_label"
      [] name = "quantity" -> "quantity_label"
      [] name = "source" -> "source_label"
      [] OTHER -> name
LegacyKwargs(kw) ==
    [n \in {Legacy(k) : k \in DOMAIN kw} |-> kw[CHOOSE k \in DOMAIN kw : Legacy(k) = n]]

\* the answers of the server to a search
SearchAnswers == {[status |-> c] : c \in StatusCodes}

\* the lists of at most MaxRecords records the server may answer with
RECURSIVE SeqsUpTo(_, _)
SeqsUpTo(S, n) ==
    IF n = 0 THEN {<<>>}
    ELSE LET shorter == SeqsUpTo(S, n - 1)
         IN shorter \cup {Append(q, x) : q \in {q \in shorter : Len(q) = n - 1}, x \in S}

\* the answers of the server to a reference-data GET
ReferenceAnswers(records) ==
    {[status |-> 200, json |-> [referenceData |-> list]] : list \in SeqsUpTo(records, MaxRecords)}
    \cup {[status |-> c] : c \in StatusCodes \ {200}}

\* what the server holds
BranchRecords == {Data(27, "TF/F", "Frequency"), Data(33, "RAD", "Radioactivity")}
\* the last record has a key the Service dataclass has no field for
ServiceRecords ==
    {Data(55, "2", "Frequency"), Data(31, "6", "Various dimensional"),
     [id |-> 31, label |-> "6", value |-> "Various dimensional", branchId |-> 12]}
SubServiceRecords ==
    {Data(218, "3", "Frequency meter"), Data(104, "7", "Not attributed 1"),
     Data(151, "4", "Fibre Polarization mode dispersion (inactive)")}
IndividualServiceRecords ==
    {Data(546, "1", "Frequency counter"), Data(547, "2", "Frequency meter")}

\* the entities a caller starts a walk from
MetrologyAreas == {L, TF, QM, RI}
Branches == {L_DimMet, TF_F, DOS, RAD, NEU}

\* the medium, source and quantity lists of the server: ids on both sides of
\* every range, and quantity records without a label
MediumRecords ==
    {Data(5, "5", "Aerosol"), Data(16, "16", "Water"), Data(17, "1", "Air"),
     Data(23, "7", "Water"), Data(24, "1", "Air"), Data(30, "4", "Tissue")}
SourceRecords ==
    {Data(2, "2", "Photons"), Data(31, "31", "Mixed"), Data(32, "1", "Radionuclide"),
     Data(34, "3", "Electrons"), Data(35, "1", "Neutrons"), Data(40, "6", "Protons")}
QuantityRecords ==
    {Data(14, "14", "X-ray tube voltage"), Data(31, "31", "Kerma"),
     Data(32, "1", "Activity"), Data(46, "15", "Emission rate"),
     Data(47, "1", "Fluence rate"), Data(77, "31", "Dose equivalent"),
     Data(40, Null, "Activity ratio"), Data(78, Null, "Absorbance"),
     Data(116, Null, "Luminance coefficient")}
\* the synthetic medium list with ids [5, 16, 17, 23, 24, 30]
AllMediums ==
    <<Data(5, "5", "Aerosol"), Data(16, "16", "Water"), Data(17, "1", "Air"),
      Data(23, "7", "Water"), Data(24, "1", "Air"), Data(30, "4", "Tissue")>>
MediumAnswers ==
    ReferenceAnswers(MediumRecords)
    \cup {[status |-> 200, json |-> [referenceData |-> AllMediums]]}

\* the metrology areas a caller may pass to branches(): those of the server,
\* and two a caller built whose label and id belong to different domains
AnyAreas ==
    MetrologyAreas \cup {EM, MetrologyArea(RADIATION, Data(3, "RI", "Ionizing Radiation")),
                         MetrologyArea(PHYSICS, Data(10, "L", "Length"))}

\* the elements of the list the last call returned
ReturnedBy(op) ==
    IF call.op = op /\ result.kind = "return"
    THEN {result.value[i] : i \in 1..Len(result.value)}
    ELSE {}

(***************************************************************************)
(* The state machine: one call from the idle state.                        *)
(***************************************************************************)
Idle == call.op = ""

Do(op, args, out) ==
    /\ call' = [op |-> op, args |-> args]
    /\ sent' = out.sent
    /\ received' = out.received
    /\ result' = out.result
    /\ UNCHANGED _timeout

\* a navigator made with the default timeout of 30 seconds
Init ==
    /\ call = [op |-> "", args |-> EmptyDict]
    /\ sent = <<>>
    /\ received = <<>>
    /\ result = [kind |-> "none"]
    /\ _timeout = KCDB_timeout(PyInt(30))

Call_ChemistryBiology_search ==
    /\ Idle
    /\ \E names \in Given(ChemistryBiologyParams), response \in SearchAnswers :
          \E k \in KwargsOver(ChemistryBiologyParams, names) :
             LET kw == k
             IN Do("ChemistryBiology.search", kw, ChemistryBiology_search(kw, response))

Call_GeneralPhysics_search ==
    /\ Idle
    /\ \E names \in Given(GeneralPhysicsParams), m \in MetrologyAreaValues, response \in SearchAnswers :
          \E k \in KwargsOver(GeneralPhysicsParams, names) :
             LET kw == Put(k, "metrology_area", m)
             IN Do("GeneralPhysics.search", kw, GeneralPhysics_search(kw, response))

Call_IonizingRadiation_search ==
    /\ Idle
    /\ \E names \in Given(IonizingRadiationParams), response \in SearchAnswers :
          \E k \in KwargsOver(IonizingRadiationParams, names) :
             LET kw == k
             IN Do("IonizingRadiation.search", kw, IonizingRadiation_search(kw, response))

Call_KCDB_quick_search ==
    /\ Idle
    /\ \E names \in Given(QuickSearchParams), response \in SearchAnswers :
          \E k \in KwargsOver(QuickSearchParams, names) :
             LET kw == k
             IN Do("KCDB.quick_search", kw, KCDB_quick_search(kw, response))

Call_CMCSearchData_chemistry_and_biology ==
    /\ Idle
    /\ \E names \in Given(ChemistryBiologyParams), response \in SearchAnswers :
          \E k \in KwargsOver(ChemistryBiologyParams, names) :
             LET kw == LegacyKwargs(k)
             IN Do("CMCSearchData.chemistry_and_biology", kw, CMCSearchData_chemistry_and_biology(kw, response))

Call_CMCSearchData_physics ==
    /\ Idle
    /\ \E names \in Given(GeneralPhysicsParams), m \in MetrologyAreaValues, response \in SearchAnswers :
          \E k \in KwargsOver(GeneralPhysicsParams, names) :
             LET kw == LegacyKwargs(Put(k, "metrology_area", m))
             IN Do("CMCSearchData.physics", kw, CMCSearchData_physics(kw, response))

Call_CMCSearchData_quick_search ==
    /\ Idle
    /\ \E names \in Given(QuickSearchParams), response \in SearchAnswers :
          \E k \in KwargsOver(QuickSearchParams, names) :
             LET kw == k
             IN Do("CMCSearchData.quick_search", kw, CMCSearchData_quick_search(kw, response))

Call_CMCSearchData_radiation ==
    /\ Idle
    /\ \E names \in Given(IonizingRadiationParams), response \in SearchAnswers :
          \E k \in KwargsOver(IonizingRadiationParams, names) :
             LET kw == LegacyKwargs(k)
             IN Do("CMCSearchData.radiation", kw, CMCSearchData_radiation(kw, response))

Call_GeneralPhysics_services ==
    /\ Idle
    /\ \E branch \in Branches, response \in ReferenceAnswers(ServiceRecords) :
          Do("GeneralPhysics.services", branch, GeneralPhysics_services(branch, response))

Call_GeneralPhysics_sub_services ==
    \E service \in ReturnedBy("GeneralPhysics.services"),
       response \in ReferenceAnswers(SubServiceRecords) :
          Do("GeneralPhysics.sub_services", service,
             GeneralPhysics_sub_services(service, response))

Call_GeneralPhysics_individual_services ==
    \E sub_service \in ReturnedBy("GeneralPhysics.sub_services"),
       response \in ReferenceAnswers(IndividualServiceRecords) :
          Do("GeneralPhysics.individual_services", sub_service,
             GeneralPhysics_individual_services(sub_service, response))

Call_ReferenceData_branches ==
    /\ Idle
    /\ \E metrology_area \in MetrologyAreas, response \in ReferenceAnswers(BranchRecords) :
          Do("ReferenceData.branches", metrology_area,
             ReferenceData_branches(metrology_area, response))

Call_ReferenceData_services ==
    /\ Idle
    /\ \E branch \in Branches, response \in ReferenceAnswers(ServiceRecords) :
          Do("ReferenceData.services", branch, ReferenceData_services(branch, response))

Call_ReferenceData_sub_services ==
    \E service \in ReturnedBy("ReferenceData.services"),
       response \in ReferenceAnswers(SubServiceRecords) :
          Do("ReferenceData.sub_services", service,
             ReferenceData_sub_services(service, response))

Call_ReferenceData_individual_services ==
    \E sub_service \in ReturnedBy("ReferenceData.sub_services"),
       response \in ReferenceAnswers(IndividualServiceRecords) :
          Do("ReferenceData.individual_services", sub_service,
             ReferenceData_individual_services(sub_service, response))

Call_GeneralPhysics_branches ==
    /\ Idle
    /\ \E metrology_area \in AnyAreas, response \in ReferenceAnswers(BranchRecords) :
          Do("GeneralPhysics.branches", metrology_area,
             GeneralPhysics_branches(metrology_area, response))

Call_IonizingRadiation_branches ==
    /\ Idle
    /\ \E metrology_area \in AnyAreas, response \in ReferenceAnswers(BranchRecords) :
          Do("IonizingRadiation.branches", metrology_area,
             IonizingRadiation_branches(metrology_area, response))

Call_IonizingRadiation_mediums ==
    /\ Idle
    /\ \E branch \in Branches, response \in MediumAnswers :
          Do("IonizingRadiation.mediums", branch, IonizingRadiation_mediums(branch, response))

Call_IonizingRadiation_quantities ==
    /\ Idle
    /\ \E branch \in Branches, response \in ReferenceAnswers(QuantityRecords) :
          Do("IonizingRadiation.quantities", branch,
             IonizingRadiation_quantities(branch, response))

Call_IonizingRadiation_sources ==
    /\ Idle
    /\ \E branch \in Branches, response \in ReferenceAnswers(SourceRecords) :
          Do("IonizingRadiation.sources", branch, IonizingRadiation_sources(branch, response))

Call_KCDB_non_ionizing_quantities ==
    /\ Idle
    /\ \E response \in ReferenceAnswers(QuantityRecords) :
          Do("KCDB.non_ionizing_quantities", EmptyDict, KCDB_non_ionizing_quantities(response))

Call_ReferenceData_quantities ==
    /\ Idle
    /\ \E response \in ReferenceAnswers(QuantityRecords) :
          Do("ReferenceData.quantities", EmptyDict, ReferenceData_quantities(response))

Call_KCDB_metrology_areas ==
    /\ Idle
    /\ \E DOMAIN_ \in {PHYSICS, CHEM_BIO, RADIATION},
          response \in ReferenceAnswers({Data(7, "TF", "Time and Frequency"),
                                         Data(9, "RI", "Ionizing Radiation")}) :
          Do("KCDB.metrology_areas", DOMAIN_, KCDB_metrology_areas(DOMAIN_, response))

Next ==
    \/ Call_ChemistryBiology_search
    \/ Call_GeneralPhysics_search
    \/ Call_IonizingRadiation_search
    \/ Call_KCDB_quick_search
    \/ Call_CMCSearchData_chemistry_and_biology
    \/ Call_CMCSearchData_physics
    \/ Call_CMCSearchData_quick_search
    \/ Call_CMCSearchData_radiation
    \/ Call_GeneralPhysics_services
    \/ Call_GeneralPhysics_sub_services
    \/ Call_GeneralPhysics_individual_services
    \/ Call_ReferenceData_branches
    \/ Call_ReferenceData_services
    \/ Call_ReferenceData_sub_services
    \/ Call_ReferenceData_individual_services
    \/ Call_GeneralPhysics_branches
    \/ Call_IonizingRadiation_branches
    \/ Call_IonizingRadiation_mediums
    \/ Call_IonizingRadiation_quantities
    \/ Call_IonizingRadiation_sources
    \/ Call_KCDB_non_ionizing_quantities
    \/ Call_ReferenceData_quantities
    \/ Call_KCDB_metrology_areas

Spec == Init /\ [][Next]_vars

(***************************************************************************)
(* The calls with their transport: the navigator holds a timeout that its  *)
(* setter changes, every request goes out with it, and the transport may   *)
(* fail instead of bringing an answer.  KCDB sends through https._request, *)
(* the navigators of the three domains through the requests package.       *)
(***************************************************************************)
\* navigator.timeout = value
Set_timeout ==
    \E value \in {None, PyInt(-1), PyInt(0), PyInt(3),
                  [t |-> "float", tenths |-> -5], [t |-> "float", tenths |-> 9]} :
       /\ call' = [op |-> "KCDB.timeout", args |-> value]
       /\ _timeout' = KCDB_timeout(value)
       /\ sent' = <<>>
       /\ received' = <<>>
       /\ result' = Returned(None)

\* KCDB.non_ionizing_quantities, sent by https.get
Send_KCDB_non_ionizing_quantities ==
    \E urlopen \in
          {[exc |-> IF r.status = 200 THEN "" ELSE "HTTPError", response |-> r, str |-> <<>>] :
             r \in ReferenceAnswers({Data(32, "1", "Activity"), Data(78, Null, "Absorbance")})}
          \cup {[exc |-> e[1], response |-> None, str |-> e[2]] :
                  e \in {<<"TimeoutError", <<"", "timed out", "">> >>,
                         <<"TimeoutError", <<"The read operation ", "timed out", "">> >>,
                         <<"URLError", <<"<urlopen error ", "timed out", ">">> >>,
                         <<"URLError", <<"<urlopen error [Errno 111] Connection refused>",
                                         "", "">> >>,
                         <<"ConnectionResetError",
                           <<"[Errno 104] Connection reset by peer", "", "">> >>}} :
       LET got == _request(Get("/referenceData/quantity", None), _timeout, urlopen)
           out == KCDB_non_ionizing_quantities(got.response.v)
       IN /\ call' = [op |-> "KCDB.non_ionizing_quantities", args |-> EmptyDict]
          /\ sent' = got.sent
          /\ received' = IF got.response.ok THEN out.received ELSE <<>>
          /\ result' = IF got.response.ok THEN out.result
                       ELSE Raised(got.response.exc, got.response.msg)
          /\ UNCHANGED _timeout

\* IonizingRadiation.mediums, sent by requests.get(url, timeout=self._timeout):
\* requests returns the response of any status, or raises an exception of its
\* own for a timeout and for a failure of the connection
Send_IonizingRadiation_mediums ==
    \E branch \in {DOS, TF_F},
       answer \in {[exc |-> "", response |-> r, msg |-> ""] :
                     r \in ReferenceAnswers({Data(16, "16", "Water"), Data(17, "1", "Air")})}
                  \cup {[exc |-> e[1], response |-> None, msg |-> e[2]] :
                          e \in {<<"requests.exceptions.ConnectTimeout",
                                   "Connection to www.bipm.org timed out.">>,
                                 <<"requests.exceptions.ReadTimeout", "Read timed out.">>,
                                 <<"requests.exceptions.ConnectionError",
                                   "Connection refused">>}} :
       LET out == IonizingRadiation_mediums(branch, answer.response)
           skipped == branch.label \notin {"RAD", "DOS", "NEU"}
           wire == <<Get("/referenceData/radiationMedium", None) @@ [timeout |-> _timeout]>>
       IN /\ call' = [op |-> "IonizingRadiation.mediums", args |-> branch]
          /\ sent' = IF skipped THEN <<>> ELSE wire
          /\ received' = IF skipped \/ answer.exc # "" THEN <<>> ELSE out.received
          /\ result' = IF skipped THEN Returned(<<>>)
                       ELSE IF answer.exc # "" THEN Raised(answer.exc, answer.msg)
                       ELSE out.result
          /\ UNCHANGED _timeout

\* GeneralPhysics.individual_services, sent by requests.get
Send_GeneralPhysics_individual_services ==
    \E sub_service \in {FrequencyMeter,
                        SubService(Frequency, "2.7", Data(104, "7", "Not attributed 1"))},
       answer \in {[exc |-> "", response |-> r, msg |-> ""] :
                     r \in ReferenceAnswers(IndividualServiceRecords)}
                  \cup {[exc |-> e[1], response |-> None, msg |-> e[2]] :
                          e \in {<<"requests.exceptions.ConnectTimeout",
                                   "Connection to www.bipm.org timed out.">>,
                                 <<"requests.exceptions.ReadTimeout", "Read timed out.">>,
                                 <<"requests.exceptions.ConnectionError",
                                   "Connection refused">>}} :
       LET out == GeneralPhysics_individual_services(sub_service, answer.response)
           wire == <<Get("/referenceData/individualService",
                         [subServiceId |-> sub_service.id]) @@ [timeout |-> _timeout]>>
       IN /\ call' = [op |-> "GeneralPhysics.individual_services", args |-> sub_service]
          /\ sent' = wire
          /\ received' = IF answer.exc # "" THEN <<>> ELSE out.received
          /\ result' = IF answer.exc # "" THEN Raised(answer.exc, answer.msg) ELSE out.result
          /\ UNCHANGED _timeout

SpecTransport ==
    Init /\ [][\/ Set_timeout
               \/ Send_KCDB_non_ionizing_quantities
               \/ Send_IonizingRadiation_mediums
               \/ Send_GeneralPhysics_individual_services]_vars

(***************************************************************************)
(* The normalisation of countries on its own: the input is drawn first,    *)
(* then the function is applied.                                           *)
(***************************************************************************)
CountryItems == {Str("CH"), Str("JP"), FR, NZ}
CountriesInputs ==
    {Str("CH"), Str("NZ"), FR, NZ} \cup {List(q) : q \in SeqsUpTo(CountryItems, MaxCountries)}

InitCountries ==
    /\ call \in {[op |-> o, args |-> c] :
                   o \in {"KCDB._to_countries", "cmc_search_data._countries"},
                   c \in CountriesInputs}
    /\ sent = <<>>
    /\ received = <<>>
    /\ result = [kind |-> "none"]
    /\ _timeout = KCDB_timeout(PyInt(30))

Finish(r) ==
    /\ result' = IF r.ok THEN Returned(r.v) ELSE Raised(r.exc, r.msg)
    /\ UNCHANGED <<call, sent, received, _timeout>>

Apply_to_countries ==
    /\ call.op = "KCDB._to_countries"
    /\ result.kind = "none"
    /\ Finish(_to_countries(call.args))

Apply_countries ==
    /\ call.op = "cmc_search_data._countries"
    /\ result.kind = "none"
    /\ Finish(_countries(call.args))

NextCountries == Apply_to_countries \/ Apply_countries

SpecCountries == InitCountries /\ [][NextCountries]_vars

(***************************************************************************)
(* filter and find, on their own.  Here a str is the sequence of its       *)
(* characters, and a pattern is a regular expression made of literal       *)
(* characters, ".", "^", "$" and "(": none with a repetition.  No string   *)
(* holds a newline, so "$" matches at the end only.                        *)
(***************************************************************************)
\* str.lower() of a character, as re.IGNORECASE compares
Lower(c) == IF c = "A" THEN "a" ELSE IF c = "B" THEN "b" ELSE c

\* the regular expression matches the string from position i on, from its
\* k-th element on
RECURSIVE MatchAt(_, _, _, _, _)
MatchAt(regex, flags, string, k, i) ==
    IF k > Len(regex) THEN TRUE
    ELSE IF regex[k] = "^" THEN i = 1 /\ MatchAt(regex, flags, string, k + 1, i)
    ELSE IF regex[k] = "$" THEN i = Len(string) + 1 /\ MatchAt(regex, flags, string, k + 1, i)
    ELSE /\ i <= Len(string)
         /\ \/ regex[k] = "."
            \/ IF "IGNORECASE" \in flags THEN Lower(regex[k]) = Lower(string[i])
               ELSE regex[k] = string[i]
         /\ MatchAt(regex, flags, string, k + 1, i + 1)

\* regex.search(string) is not None
search(regex, flags, string) ==
    \E i \in 1..(Len(string) + 1) : MatchAt(regex, flags, string, 1, i)

\* re.compile(pattern, flags=flags)
compile(pattern) ==
    IF \E k \in 1..Len(pattern) : pattern[k] = "("
    THEN Raise("re.error", "missing ), unterminated subpattern")
    ELSE Ok(pattern)

\* a variant of KCDB.filter that searches the value only
KCDB_filter_ValueOnly(data, pattern, flags) ==
    LET regex == compile(pattern)
    IN IF ~regex.ok THEN regex
       ELSE Ok(SelectSeq(data, LAMBDA item : search(regex.v, flags, item.value)))

\* for item in data: if no match: data.remove(item), which skips the item
\* after each one removed
RECURSIVE RemoveWhileIterating(_, _, _, _)
RemoveWhileIterating(data, regex, flags, i) ==
    IF i > Len(data) THEN data
    ELSE IF search(regex, flags, data[i].value) \/ search(regex, flags, data[i].label)
    THEN RemoveWhileIterating(data, regex, flags, i + 1)
    ELSE RemoveWhileIterating(SubSeq(data, 1, i - 1) \o SubSeq(data, i + 1, Len(data)),
                              regex, flags, i + 1)

\* a variant of KCDB.filter that removes from the list it iterates over
KCDB_filter_InPlace(data, pattern, flags) ==
    LET regex == compile(pattern)
    IN IF ~regex.ok THEN regex
       ELSE Ok(RemoveWhileIterating(data, regex.v, flags, 1))

\* KCDB.filter
KCDB_filter(data, pattern, flags) ==
    LET regex == compile(pattern)
    IN IF ~regex.ok THEN regex
       ELSE Ok(SelectSeq(data, LAMBDA item : \/ search(regex.v, flags, item.value)
                                            \/ search(regex.v, flags, item.label)))

\* ReferenceData.filter
ReferenceData_filter(ref_data, pattern, flags) ==
    LET regex == compile(pattern)
    IN IF ~regex.ok THEN regex
       ELSE Ok(SelectSeq(ref_data, LAMBDA item : \/ search(regex.v, flags, item.value)
                                                \/ search(regex.v, flags, item.label)))

\* a variant of ReferenceData.find that goes on after a match
ReferenceData_find_Last(ref_data, id) ==
    LET found == {i \in 1..Len(ref_data) : ref_data[i].id = id}
    IN IF found = {} THEN Raise("ValueError", "ID " \o ToString(id) \o " cannot be found")
       ELSE Ok(ref_data[CHOOSE i \in found : \A j \in found : j <= i])

\* ReferenceData.find
ReferenceData_find(ref_data, id) ==
    LET found == {i \in 1..Len(ref_data) : ref_data[i].id = id}
    IN IF found = {} THEN Raise("ValueError", "ID " \o ToString(id) \o " cannot be found")
       ELSE Ok(ref_data[CHOOSE i \in found : \A j \in found : i <= j])

\* reference data whose value only, label only, both or neither hold an "a";
\* two of them share an id
Items ==
    {[id |-> 1, label |-> <<"a">>, value |-> <<"A", "b">>],
     [id |-> 2, label |-> <<"b", "a">>, value |-> <<"b">>],
     [id |-> 2, label |-> <<>>, value |-> <<"a", "b">>],
     [id |-> 3, label |-> <<"B">>, value |-> <<>>]}
Patterns ==
    {<<>>, <<"a">>, <<"a", "b">>, <<"^", "a">>, <<"b", "$">>, <<".", "b">>, <<"^", "$">>,
     <<"a", "^">>, <<"(">>}

InitLookup ==
    /\ call \in {[op |-> o, args |-> [data |-> d, pattern |-> p, flags |-> f, given |-> d,
                                        of |-> "caller"]] :
                   o \in {"KCDB.filter", "ReferenceData.filter"},
                   d \in SeqsUpTo(Items, MaxItems), p \in Patterns, f \in {{}, {"IGNORECASE"}}}
               \cup {[op |-> "ReferenceData.find", args |-> [data |-> d, id |-> id]] :
                       d \in SeqsUpTo(Items, MaxItems), id \in 1..4}
    /\ sent = <<>>
    /\ received = <<>>
    /\ result = [kind |-> "none"]
    /\ _timeout = KCDB_timeout(PyInt(30))

Apply_KCDB_filter ==
    /\ call.op = "KCDB.filter"
    /\ result.kind = "none"
    /\ Finish(KCDB_filter(call.args.data, call.args.pattern, call.args.flags))

Apply_ReferenceData_filter ==
    /\ call.op = "ReferenceData.filter"
    /\ result.kind = "none"
    /\ Finish(ReferenceData_filter(call.args.data, call.args.pattern, call.args.flags))

Apply_ReferenceData_find ==
    /\ call.op = "ReferenceData.find"
    /\ result.kind = "none"
    /\ Finish(ReferenceData_find(call.args.data, call.args.id))

\* the caller filters what a filter returned, with the same pattern and flags
Refilter(r) ==
    /\ call' = [call EXCEPT !.args.data = result.value, !.args.of = "filter"]
    /\ result' = IF r.ok THEN Returned(r.v) ELSE Raised(r.exc, r.msg)
    /\ UNCHANGED <<sent, received, _timeout>>

Again_KCDB_filter ==
    /\ call.op = "KCDB.filter"
    /\ call.args.of = "caller"
    /\ result.kind = "return"
    /\ Refilter(KCDB_filter(result.value, call.args.pattern, call.args.flags))

Again_ReferenceData_filter ==
    /\ call.op = "ReferenceData.filter"
    /\ call.args.of = "caller"
    /\ result.kind = "return"
    /\ Refilter(ReferenceData_filter(result.value, call.args.pattern, call.args.flags))

NextLookup ==
    \/ Apply_KCDB_filter
    \/ Apply_ReferenceData_filter
    \/ Apply_ReferenceData_find
    \/ Again_KCDB_filter
    \/ Again_ReferenceData_filter

SpecLookup == InitLookup /\ [][NextLookup]_vars

(***************************************************************************)
(* The classes of the search results.  kwargs is a JSON object: a function *)
(* of its keys; a value is None (null), Str, PyInt, List or a nested       *)
(* object [t |-> "dict", d |-> the object].  A constructor gives Ok(the    *)
(* instance) or the exception it raises.                                   *)
(***************************************************************************)
\* msl.kcdb.classes: kwargs.get(key) or ""
get_or_empty(kwargs, key) ==
    IF Truthy(Arg(kwargs, key, None)) THEN Arg(kwargs, key, None) ELSE Str("")

\* how a package reads an optional string: kwargs.get(key) or "" in msl.kcdb,
\* kwargs.get(key, "") in kcdb
text(package, kwargs, key) ==
    IF package = "kcdb" THEN Arg(kwargs, key, Str("")) ELSE get_or_empty(kwargs, key)

\* ResultCommon.__init__, with ResultUnit, ResultEquation, AbsoluteRelative and
\* ResultTable; text is how the package reads an optional string
ResultCommon(package, kwargs) ==
    LET ResultUnit(key) ==
            LET k == Arg(kwargs, key, None)
            IN IF Truthy(k)
               THEN [t |-> "ResultUnit", lower_limit |-> Arg(k.d, "lowerLimit", None),
                     unit |-> text(package, k.d, "unit"), upper_limit |-> Arg(k.d, "upperLimit", None)]
               ELSE None
        equation == Arg(kwargs, "uncertaintyEquation", None)
        mode == Arg(kwargs, "uncertaintyMode", None)
        table == Arg(kwargs, "uncertaintyTable", None)
    IN IF "id" \notin DOMAIN kwargs THEN Raise("KeyError", "id")
       ELSE IF Truthy(mode) /\ mode.s \notin {"Absolute", "Relative"}
       THEN Raise("ValueError", "not a valid AbsoluteRelative")
       ELSE IF Truthy(table) /\ "tableRows" \notin DOMAIN table.d
       THEN Raise("KeyError", "tableRows")
       ELSE IF Truthy(table) /\ "tableCols" \notin DOMAIN table.d
       THEN Raise("KeyError", "tableCols")
       ELSE Ok([t |-> "ResultCommon",
                id |-> kwargs.id,
                approval_date |-> text(package, kwargs, "approvalDate"),
                cmc |-> ResultUnit("cmc"),
                cmc_base_unit |-> ResultUnit("cmcBaseUnit"),
                cmc_uncertainty |-> ResultUnit("cmcUncertainty"),
                cmc_uncertainty_base_unit |-> ResultUnit("cmcUncertaintyBaseUnit"),
                comments |-> text(package, kwargs, "comments"),
                confidence_level |-> Arg(kwargs, "confidenceLevel", None),
                country_value |-> text(package, kwargs, "countryValue"),
                coverage_factor |-> Arg(kwargs, "coverageFactor", None),
                domain_code |-> text(package, kwargs, "domainCode"),
                group_identifier |-> text(package, kwargs, "groupIdentifier"),
                kcdb_code |-> text(package, kwargs, "kcdbCode"),
                metrology_area_label |-> text(package, kwargs, "metrologyAreaLabel"),
                nmi_code |-> text(package, kwargs, "nmiCode"),
                nmi_name |-> text(package, kwargs, "nmiName"),
                nmi_service_code |-> text(package, kwargs, "nmiServiceCode"),
                nmi_service_link |-> text(package, kwargs, "nmiServiceLink"),
                publication_date |-> text(package, kwargs, "publicationDate"),
                quantity_value |-> text(package, kwargs, "quantityValue"),
                rmo |-> text(package, kwargs, "rmo"),
                status |-> text(package, kwargs, "status"),
                status_date |-> text(package, kwargs, "statusDate"),
                traceability_source |-> text(package, kwargs, "traceabilitySource"),
                uncertainty_equation |->
                    IF Truthy(equation)
                    THEN [t |-> "ResultEquation",
                          equation |-> text(package, equation.d, "equation"),
                          equation_comment |-> text(package, equation.d, "equationComment")]
                    ELSE None,
                uncertainty_mode |->
                    IF Truthy(mode) THEN [t |-> "AbsoluteRelative", value |-> mode.s] ELSE None,
                uncertainty_table |->
                    IF Truthy(table)
                    THEN [t |-> "ResultTable",
                          table_rows |-> table.d.tableRows,
                          table_cols |-> table.d.tableCols,
                          table_name |-> text(package, table.d, "tableName"),
                          table_comment |-> text(package, table.d, "tableComment"),
                          table_contents |-> text(package, table.d, "tableContents")]
                    ELSE None])

\* Results.__init__: the envelope of a page, or the KeyError of its first
\* missing key
Results(package, kwargs) ==
    LET required == <<"numberOfElements", "pageNumber", "pageSize", "totalElements",
                      "totalPages">>
        missing == {i \in 1..Len(required) : required[i] \notin DOMAIN kwargs}
    IN IF missing # {} THEN Raise("KeyError", required[CHOOSE i \in missing : \A j \in missing : i <= j])
       ELSE Ok([number_of_elements |-> kwargs.numberOfElements,
                page_number |-> kwargs.pageNumber,
                page_size |-> kwargs.pageSize,
                total_elements |-> kwargs.totalElements,
                total_pages |-> kwargs.totalPages,
                version_api_kcdb |-> text(package, kwargs, "versionApiKcdb")])

\* ResultsIonizingRadiation.__init__ (kcdb.classes: ResultsRadiation), with
\* ResultIonizingRadiation.__init__ (ResultRadiation) for every element of data
ResultsIonizingRadiation(package, kwargs) ==
    LET page == Results(package, kwargs)
        raw == Arg(kwargs, "data", List(<<>>)).items
        ResultIonizingRadiation(d) ==
            LET common == ResultCommon(package, d)
            IN IF ~common.ok THEN common
               ELSE Ok([t |-> "ResultIonizingRadiation",
                        branch_value |-> text(package, d, "branchValue"),
                        instrument |-> text(package, d, "instrument"),
                        instrument_method |-> text(package, d, "instrumentMethod"),
                        international_standard |-> text(package, d, "internationalStandard"),
                        medium_value |-> text(package, d, "mediumValue"),
                        nuclide_value |-> text(package, d, "nuclideValue"),
                        radiation_code |-> text(package, d, "radiationCode"),
                        radiation_specification |-> text(package, d, "radiationSpecification"),
                        reference_standard |-> text(package, d, "referenceStandard"),
                        source_value |-> text(package, d, "sourceValue")] @@ common.v)
        data == [i \in 1..Len(raw) |-> ResultIonizingRadiation(raw[i].d)]
        failed == {i \in 1..Len(raw) : ~data[i].ok}
    IN IF ~page.ok THEN page
       ELSE IF failed # {} THEN data[CHOOSE i \in failed : \A j \in failed : i <= j]
       ELSE Ok([t |-> "ResultsIonizingRadiation",
                data |-> [i \in 1..Len(raw) |-> data[i].v]] @@ page.v)

\* a variant of ResultFilter.__init__ that keeps the children as they came
ResultFilter_Shallow(kwargs) ==
    IF "count" \notin DOMAIN kwargs THEN Raise("KeyError", "count")
    ELSE IF "order" \notin DOMAIN kwargs THEN Raise("KeyError", "order")
    ELSE Ok([t |-> "ResultFilter",
             children |-> Arg(kwargs, "children", List(<<>>)).items,
             code |-> get_or_empty(kwargs, "code"),
             count |-> kwargs.count,
             name |-> get_or_empty(kwargs, "name"),
             order |-> kwargs.order])

\* ResultFilter.__init__: the children first, each a ResultFilter
RECURSIVE ResultFilter(_)
ResultFilter(kwargs) ==
    LET raw == Arg(kwargs, "children", List(<<>>)).items
        children == [i \in 1..Len(raw) |-> ResultFilter(raw[i].d)]
        failed == {i \in 1..Len(raw) : ~children[i].ok}
    IN IF failed # {} THEN children[CHOOSE i \in failed : \A j \in failed : i <= j]
       ELSE IF "count" \notin DOMAIN kwargs THEN Raise("KeyError", "count")
       ELSE IF "order" \notin DOMAIN kwargs THEN Raise("KeyError", "order")
       ELSE Ok([t |-> "ResultFilter",
                children |-> [i \in 1..Len(raw) |-> children[i].v],
                code |-> get_or_empty(kwargs, "code"),
                count |-> kwargs.count,
                name |-> get_or_empty(kwargs, "name"),
                order |-> kwargs.order])

\* ResultsQuickSearch.__init__, with ResultAggregation.__init__
ResultsQuickSearch(kwargs) ==
    LET page == Results("msl.kcdb", kwargs)
        aggregations == Arg(kwargs, "aggregations", List(<<>>)).items
        raw == Arg(kwargs, "filtersList", List(<<>>)).items
        filters_list == [i \in 1..Len(raw) |-> ResultFilter(raw[i].d)]
        failed == {i \in 1..Len(raw) : ~filters_list[i].ok}
    IN IF ~page.ok THEN page
       ELSE IF failed # {} THEN filters_list[CHOOSE i \in failed : \A j \in failed : i <= j]
       ELSE Ok([t |-> "ResultsQuickSearch",
                aggregations |->
                    [i \in 1..Len(aggregations) |->
                       [t |-> "ResultAggregation",
                        name |-> get_or_empty(aggregations[i].d, "name"),
                        values |-> Arg(aggregations[i].d, "values", List(<<>>))]],
                data |-> Arg(kwargs, "data", List(<<>>)),
                filters_list |-> [i \in 1..Len(raw) |-> filters_list[i].v]] @@ page.v)

(***************************************************************************)
(* The parsing of a search response on its own: response.json() is drawn   *)
(* first, then the class of the results is applied to it.                  *)
(***************************************************************************)
InitParse ==
    LET Absent == [t |-> "absent"]
        Object(keys) == [k \in {k \in DOMAIN keys : keys[k] # Absent} |-> keys[k]]
        Dict(d) == [t |-> "dict", d |-> d]
        Int1 == {Absent, PyInt(1)}
        \* the records of a page: every optional key absent, null, empty or set
        Records ==
            {Object(keys) : keys \in
                [id : {Absent, PyInt(7)},
                 approvalDate : {Absent, None, Str(""), Str("2005-01-31")},
                 confidenceLevel : {Absent, None, PyInt(95)},
                 cmc : {Absent, None, Dict(EmptyDict),
                        Dict([unit |-> None, lowerLimit |-> PyInt(1)])},
                 uncertaintyMode : {Absent, None, Str(""), Str("Relative"), Str("Both")},
                 uncertaintyTable : {Absent, Dict(EmptyDict),
                                     Dict([tableRows |-> PyInt(1), tableCols |-> PyInt(2)]),
                                     Dict([tableRows |-> PyInt(1)])}]}
        Few == {r \in Records :
                  /\ DOMAIN r \subseteq {"id", "uncertaintyTable"}
                  /\ "uncertaintyTable" \in DOMAIN r => "id" \in DOMAIN r /\ Truthy(r.uncertaintyTable)}
        \* the envelopes: complete, or with one or two required keys missing
        Envelopes ==
            {Object(keys) : keys \in
                [numberOfElements : {PyInt(1)}, pageNumber : Int1, pageSize : {PyInt(100)},
                 totalElements : Int1, totalPages : Int1,
                 versionApiKcdb : {Absent, None, Str("1.0.9")}]}
        Complete == [numberOfElements |-> PyInt(1), pageNumber |-> PyInt(0),
                     pageSize |-> PyInt(100), totalElements |-> PyInt(1),
                     totalPages |-> PyInt(1)]
        Pages ==
            {[data |-> List(<<Dict(r)>>)] @@ Complete : r \in Records}
            \cup Envelopes
            \cup {[data |-> List([i \in 1..Len(q) |-> Dict(q[i])])] @@ e :
                    e \in Envelopes, q \in SeqsUpTo(Few, MaxRecords)}
        \* filters: leaves and parents, a key missing at depth 1, 2 or 3
        Leaf == [count |-> PyInt(4), order |-> PyInt(0), code |-> None]
        NoCount == [order |-> PyInt(1), name |-> Str("cmcDomain")]
        Parent(child) == [count |-> PyInt(9), order |-> PyInt(2),
                          children |-> List(<<Dict(Leaf), Dict(child)>>)]
        Filters == {Leaf, NoCount, Parent(Leaf), Parent(NoCount),
                    Parent(Parent([count |-> PyInt(1)]))}
        QuickPages ==
            {Object(keys) @@ e :
                keys \in [filtersList : {Absent} \cup {List([i \in 1..Len(q) |-> Dict(q[i])]) :
                                                        q \in SeqsUpTo(Filters, MaxRecords)},
                          aggregations : {Absent,
                                          List(<<Dict([name |-> None]),
                                                 Dict([name |-> Str("cmcCountries"),
                                                       values |-> List(<<Str("NZ")>>)])>>)}],
                e \in {Complete, [numberOfElements |-> PyInt(1)]}}
    IN /\ call \in {[op |-> o, args |-> json] :
                      o \in {"ResultsIonizingRadiation", "kcdb.ResultsRadiation"},
                      json \in Pages}
                   \cup {[op |-> "ResultsQuickSearch", args |-> json] : json \in QuickPages}
       /\ sent = <<>>
       /\ received = <<>>
       /\ result = [kind |-> "none"]
       /\ _timeout = KCDB_timeout(PyInt(30))

Apply_ResultsIonizingRadiation ==
    /\ call.op = "ResultsIonizingRadiation"
    /\ result.kind = "none"
    /\ Finish(ResultsIonizingRadiation("msl.kcdb", call.args))

Apply_ResultsRadiation ==
    /\ call.op = "kcdb.ResultsRadiation"
    /\ result.kind = "none"
    /\ Finish(ResultsIonizingRadiation("kcdb", call.args))

Apply_ResultsQuickSearch ==
    /\ call.op = "ResultsQuickSearch"
    /\ result.kind = "none"
    /\ Finish(ResultsQuickSearch(call.args))

SpecParse ==
    InitParse /\ [][\/ Apply_ResultsIonizingRadiation
                    \/ Apply_ResultsRadiation
                    \/ Apply_ResultsQuickSearch]_vars

(***************************************************************************)
(* Vocabulary of the properties.                                           *)
(***************************************************************************)
NavigatorSearches ==
    {"ChemistryBiology.search", "GeneralPhysics.search", "IonizingRadiation.search",
     "KCDB.quick_search"}
LegacySearches ==
    {"CMCSearchData.chemistry_and_biology", "CMCSearchData.physics",
     "CMCSearchData.radiation", "CMCSearchData.quick_search"}
Searches == NavigatorSearches \cup LegacySearches
DomainSearches == Searches \ {"KCDB.quick_search", "CMCSearchData.quick_search"}

IsSearch == call.op \in Searches
Passed(name) == name \in DOMAIN call.args
ValidationFailure == result.kind = "raise" /\ result.exc = "ValueError"
Failed == result.kind = "raise"
\* the JSON body of the one request the call sent
Body == sent[1].json

\* the page information the caller passed breaks page >= 0, 1 <= page_size <= 10000
PageInfoInvalid ==
    \/ Passed("page") /\ call.args["page"] < 0
    \/ Passed("page_size") /\ (call.args["page_size"] < 1 \/ call.args["page_size"] > 10000)

\* C1: every search is rejected with a validation failure exactly when
\* page < 0 or page_size < 1 or page_size > 10000
C1_RejectedIffPageInfoInvalid == IsSearch => (ValidationFailure <=> PageInfoInvalid)

\* C2: a search that ends in a validation failure has sent no request, and
\* the page check comes before every conversion of a parameter: a call whose
\* page information the operation rejects ends in the validation failure
\* whatever else is wrong with its arguments
C2_NoRequestOnValidationFailure ==
    IsSearch =>
        /\ ValidationFailure => sent = <<>> /\ received = <<>>
        /\ Passed("page_size") /\ call.args["page_size"] > 10000 => ValidationFailure
        /\ call.op \in NavigatorSearches /\ PageInfoInvalid => ValidationFailure

C2_Witness ==
    /\ call.op = "GeneralPhysics.search"
    /\ Passed("page") /\ call.args["page"] = -1
    /\ Passed("branch") /\ call.args["branch"] = PyInt(5)
    /\ ValidationFailure
    /\ sent = <<>>

\* the JSON key of an optional parameter of a domain search
KeyOf(name) ==
    CASE name \in {"analyte", "analyte_label"} -> "analyteLabel"
      [] name \in {"branch", "branch_label"} -> "branchLabel"
      [] name \in {"category", "category_label"} -> "categoryLabel"
      [] name = "countries" -> "countries"
      [] name = "keywords" -> "keywords"
      [] name \in {"medium", "medium_label"} -> "mediumLabel"
      [] name \in {"nuclide", "nuclide_label"} -> "nuclideLabel"
      [] name = "physics_code" -> "physicsCode"
      [] name = "public_date_from" -> "publicDateFrom"
      [] name = "public_date_to" -> "publicDateTo"
      [] name \in {"quantity", "quantity_label"} -> "quantityLabel"
      [] name \in {"source", "source_label"} -> "sourceLabel"
      [] name = "excluded_filters" -> "excludedFilters"
      [] name = "included_filters" -> "includedFilters"
      [] name \in {"metrology_area", "metrology_area_label"} -> "metrologyAreaLabel"
AlwaysSent == {"page", "page_size", "show_table", "metrology_area", "metrology_area_label"}
OptionalPassed == (DOMAIN call.args) \ AlwaysSent

\* C3: the body of a domain search holds page, pageSize, showTable and
\* metrologyAreaLabel and one key for each optional parameter whose value is
\* truthy, and no other key
C3_BodyKeysAreTheTruthyParameters ==
    call.op \in DomainSearches /\ sent # <<>> =>
        DOMAIN Body = {"page", "pageSize", "showTable", "metrologyAreaLabel"}
                      \cup {KeyOf(name) : name \in {n \in OptionalPassed : Truthy(call.args[n])}}

\* C4: a search that is not passed page sends page = 0, and one that is not
\* passed page_size sends pageSize = 100
C4_DefaultPageAndPageSize ==
    IsSearch /\ sent # <<>> =>
        /\ ~Passed("page") => Body["page"] = 0
        /\ ~Passed("page_size") => Body["pageSize"] = 100

\* C5: a single string s gives [s], a single Country c gives [c.label], and
\* a sequence of strings and Country entities gives the list, of the same
\* length and in the same order, of each string and of each Country's label
C5_CountriesNormalised ==
    call.op \in {"KCDB._to_countries", "cmc_search_data._countries"} /\ result.kind # "none" =>
        /\ result.kind = "return"
        /\ call.args.t = "str" => result.value = <<call.args.s>>
        /\ call.args.t = "Country" => result.value = <<call.args.label>>
        /\ call.args.t = "list" =>
              /\ Len(result.value) = Len(call.args.items)
              /\ \A i \in 1..Len(call.args.items) :
                    LET c == call.args.items[i]
                    IN result.value[i] = IF c.t = "str" THEN c.s ELSE c.label
        /\ call.args = Str("CH") => result.value = <<"CH">>
        /\ call.args = FR => result.value = <<"FR">>
        /\ call.args = List(<<Str("CH"), FR, Str("JP")>>) => result.value = <<"CH", "FR", "JP">>

C5_Witness ==
    /\ call.op = "KCDB._to_countries"
    /\ call.args = List(<<Str("CH"), FR, Str("JP")>>)
    /\ result = Returned(<<"CH", "FR", "JP">>)

\* the string-or-entity parameters the call passes, and the attribute read
\* from an entity
StringOrEntityPassed ==
    {n \in DOMAIN call.args :
       n \in {"analyte", "analyte_label", "branch", "branch_label", "category",
               "category_label", "medium", "medium_label", "metrology_area",
               "metrology_area_label", "nuclide", "nuclide_label", "physics_code",
               "quantity", "quantity_label", "source", "source_label"}}
Attribute(name) == IF name = "physics_code" THEN "physics_code" ELSE "label"
Neither(name, v) == v.t # "str" /\ Attribute(name) \notin DOMAIN v

\* the value in the body is the string passed, or the attribute of the entity
PlacedAsPassed(name, v) ==
    sent # <<>> /\ KeyOf(name) \in DOMAIN Body =>
        IF v.t = "str" THEN Body[KeyOf(name)] = v.s
        ELSE /\ Attribute(name) \in DOMAIN v
             /\ Body[KeyOf(name)] = v[Attribute(name)]

\* C6 as stated: the body holds the string passed or the entity's label
\* (physics_code for the physics code), and a call that passes a value that
\* is neither a string nor such an entity fails without producing a body
C6_NeitherAlwaysFails ==
    IsSearch =>
        \A name \in StringOrEntityPassed :
            LET v == call.args[name]
            IN /\ PlacedAsPassed(name, v)
               /\ Neither(name, v) /\ v # None => Failed /\ sent = <<>>

\* the value reaches the conversion: the metrology area always does, the
\* analyte of ChemistryBiology.search unless it is None, any other
\* parameter when it is truthy
Converted(name, v) ==
    \/ name \in {"metrology_area", "metrology_area_label"}
    \/ call.op = "ChemistryBiology.search" /\ name = "analyte" /\ v # None
    \/ Truthy(v)

\* C6 amended: the body holds the string passed or the entity's label
\* (physics_code for the physics code); a value that is neither fails the
\* call before any request when it reaches the conversion, and is left out
\* of the body, as an absent one is, when it is falsy
C6_NeitherFailsWhenConverted ==
    IsSearch =>
        \A name \in StringOrEntityPassed :
            LET v == call.args[name]
            IN /\ PlacedAsPassed(name, v)
               /\ sent # <<>> /\ Truthy(v) => KeyOf(name) \in DOMAIN Body
               /\ Neither(name, v) /\ Converted(name, v) => Failed /\ sent = <<>>
               /\ Neither(name, v) /\ ~Converted(name, v) /\ sent # <<>> =>
                     KeyOf(name) \notin DOMAIN Body

C6_Witness ==
    /\ call.op = "GeneralPhysics.search"
    /\ Passed("physics_code") /\ call.args["physics_code"] = FrequencyMeter
    /\ Passed("branch") /\ call.args["branch"] = EM_RF
    /\ sent # <<>>
    /\ Body["physicsCode"] = "2.3"
    /\ Body["branchLabel"] = "EM/RF"

\* the walks of the service hierarchy
ServicesLookups == {"GeneralPhysics.services", "ReferenceData.services"}
SubServicesLookups == {"GeneralPhysics.sub_services", "ReferenceData.sub_services"}
IndividualServicesLookups ==
    {"GeneralPhysics.individual_services", "ReferenceData.individual_services"}
Nodes == IF result.kind = "return" THEN {result.value[i] : i \in 1..Len(result.value)} ELSE {}

\* C7: the physics_code of every node a walk returns is the dot-join of the
\* own labels from the Service down to the node: a Service has its label, a
\* SubService its service's physics_code, a dot and its own label, an
\* IndividualService its sub-service's physics_code, a dot and its own label
C7_PhysicsCodeIsDotJoinOfLabels ==
    /\ call.op \in ServicesLookups =>
          \A node \in Nodes : node.physics_code = node.label
    /\ call.op \in SubServicesLookups =>
          \A node \in Nodes :
             /\ node.physics_code = DotJoin(call.args.physics_code, node.label)
             /\ node.physics_code = call.args.label \o "." \o node.label
    /\ call.op \in IndividualServicesLookups =>
          \A node \in Nodes :
             /\ node.physics_code = DotJoin(call.args.physics_code, node.label)
             /\ node.physics_code =
                   call.args.service.label \o "." \o call.args.label \o "." \o node.label

\* C8: the services of a branch of id 32, 33 or 34 are the empty list and
\* no request is sent; for any other branch exactly one GET is sent, with
\* branchId the id of the branch
C8_ServicesShortCircuit ==
    call.op \in ServicesLookups =>
        IF call.args.id \in {32, 33, 34}
        THEN result = Returned(<<>>) /\ sent = <<>>
        ELSE sent = <<Get("/referenceData/service", [branchId |-> call.args.id])>>

\* the class of the status code of the answer
Answered(class) ==
    /\ received # <<>>
    /\ received[1].status \in class

\* C9: when the server answers individual_services(sub_service) with a 4xx
\* status, the result is the empty list if and only if the id of the
\* sub-service is 104 or 151; for any other id the call fails on its assertion
C9_EmptyOn4xxIffKnownSubService ==
    call.op \in IndividualServicesLookups /\ Answered(400..499) =>
        /\ result = Returned(<<>>) <=> call.args.id \in {104, 151}
        /\ call.args.id \notin {104, 151} =>
              result.kind = "raise" /\ result.exc = "AssertionError"

C9_Witness ==
    /\ call.op = "GeneralPhysics.individual_services"
    /\ Answered({404})
    /\ call.args.id = 104
    /\ result = Returned(<<>>)

\* C10: a 5xx answer to any request fails the call with the server error;
\* no operation returns a result from it
C10_ServerErrorPropagates ==
    Answered(500..599) =>
        /\ result.kind = "raise"
        /\ result.exc = "HTTPException"
        /\ result.msg = "Server Error"

\* the records the nodes of the result were made from
Records(nodes) == [i \in 1..Len(nodes) |-> Data(nodes[i].id, nodes[i].label, nodes[i].value)]
Ids(records) == [i \in 1..Len(records) |-> records[i].id]
\* the records of the answer the call received
Answer == received[1].json.referenceData

\* C11: GeneralPhysics.branches(area) returns the empty list and sends no
\* request when the label of the area is "QM" or "RI"; for any other label
\* it sends one GET of the branch endpoint with areaId the id of the area,
\* and every Branch returned holds the area passed in
C11_GeneralPhysicsBranchesSkipsOtherDomains ==
    call.op = "GeneralPhysics.branches" =>
        IF call.args.label \in {"QM", "RI"}
        THEN result = Returned(<<>>) /\ sent = <<>>
        ELSE /\ sent = <<Get("/referenceData/branch", [areaId |-> call.args.id])>>
             /\ \A node \in Nodes : node.t = "Branch" /\ node.metrology_area = call.args
             /\ Answered({200}) => result.kind = "return" /\ Records(result.value) = Answer

C11_Witness ==
    /\ call.op = "GeneralPhysics.branches"
    /\ call.args = TF
    /\ sent # <<>>
    /\ result.kind = "return"
    /\ Len(result.value) = 2
    /\ result.value[1] = TF_F

\* C12: IonizingRadiation.branches(area) returns the empty list and sends no
\* request when the id of the area is below 9, and sends one GET of the
\* branch endpoint with areaId the id of the area otherwise, whatever the
\* label and the domain of the area
C12_IonizingRadiationBranchesByAreaId ==
    call.op = "IonizingRadiation.branches" =>
        IF call.args.id < 9
        THEN result = Returned(<<>>) /\ sent = <<>>
        ELSE /\ sent = <<Get("/referenceData/branch", [areaId |-> call.args.id])>>
             /\ Answered({200}) => result.kind = "return" /\ Records(result.value) = Answer

C12_Witness ==
    /\ call.op = "IonizingRadiation.branches"
    /\ call.args.id = 3 /\ call.args.label = "RI"
    /\ result = Returned(<<>>)
    /\ sent = <<>>

\* the result is made, in the order of the answer, of exactly the records
\* of the answer whose id is in the range, each with the branch passed in
KeepsExactly(cls, InRange(_)) ==
    /\ result.kind = "return"
    /\ Records(result.value) = SelectSeq(Answer, LAMBDA d : InRange(d.id))
    /\ \A node \in Nodes : node.t = cls /\ node.branch = call.args

\* C13: IonizingRadiation.mediums(branch) returns, in the order of the
\* server, exactly the mediums of id < 17 for RAD, of 17 <= id < 24 for DOS
\* and of id >= 24 for NEU, each with the branch passed in; of the ids
\* [5, 16, 17, 23, 24, 30] it keeps [5, 16], [17, 23] and [24, 30]
C13_MediumsByIdRange ==
    call.op = "IonizingRadiation.mediums" /\ Answered({200}) =>
        /\ call.args.label = "RAD" => KeepsExactly("Medium", LAMBDA id : id < 17)
        /\ call.args.label = "DOS" => KeepsExactly("Medium", LAMBDA id : 17 <= id /\ id < 24)
        /\ call.args.label = "NEU" => KeepsExactly("Medium", LAMBDA id : id >= 24)
        /\ Answer = AllMediums =>
              Ids(result.value) = CASE call.args.label = "RAD" -> <<5, 16>>
                                    [] call.args.label = "DOS" -> <<17, 23>>
                                    [] call.args.label = "NEU" -> <<24, 30>>

C13_Witness ==
    /\ call.op = "IonizingRadiation.mediums"
    /\ call.args = DOS
    /\ Answered({200}) /\ Answer = AllMediums
    /\ result.kind = "return"
    /\ Ids(result.value) = <<17, 23>>

\* C14: IonizingRadiation.sources(branch) returns, in the order of the
\* server, exactly the sources of id < 32 for DOS, of 32 <= id < 35 for RAD
\* and of id >= 35 for NEU, each with the branch passed in
C14_SourcesByIdRange ==
    call.op = "IonizingRadiation.sources" /\ Answered({200}) =>
        /\ call.args.label = "DOS" => KeepsExactly("Source", LAMBDA id : id < 32)
        /\ call.args.label = "RAD" => KeepsExactly("Source", LAMBDA id : 32 <= id /\ id < 35)
        /\ call.args.label = "NEU" => KeepsExactly("Source", LAMBDA id : id >= 35)

C14_Witness ==
    /\ call.op = "IonizingRadiation.sources"
    /\ call.args = RAD
    /\ Answered({200}) /\ Ids(Answer) = <<31, 32>>
    /\ result.kind = "return"
    /\ Ids(result.value) = <<32>>

\* C15: IonizingRadiation.quantities(branch) returns, in the order of the
\* server, exactly the quantities of id < 32 for DOS, of 32 <= id < 47 for
\* RAD and of 47 <= id < 78 for NEU; it returns no record of id >= 78 for
\* any branch
C15_QuantitiesByIdRange ==
    call.op = "IonizingRadiation.quantities" =>
        /\ \A node \in Nodes : node.id < 78
        /\ Answered({200}) =>
              /\ call.args.label = "DOS" => KeepsExactly("Quantity", LAMBDA id : id < 32)
              /\ call.args.label = "RAD" =>
                    KeepsExactly("Quantity", LAMBDA id : 32 <= id /\ id < 47)
              /\ call.args.label = "NEU" =>
                    KeepsExactly("Quantity", LAMBDA id : 47 <= id /\ id < 78)

C15_Witness ==
    /\ call.op = "IonizingRadiation.quantities"
    /\ call.args = NEU
    /\ Answered({200}) /\ Ids(Answer) = <<77, 78>>
    /\ result.kind = "return"
    /\ Ids(result.value) = <<77>>

\* the lookups that keep a part of a list the server holds for all branches
BranchLookups ==
    {"IonizingRadiation.mediums", "IonizingRadiation.sources", "IonizingRadiation.quantities"}
Endpoint ==
    CASE call.op = "IonizingRadiation.mediums" -> "/referenceData/radiationMedium"
      [] call.op = "IonizingRadiation.sources" -> "/referenceData/radiationSource"
      [] call.op = "IonizingRadiation.quantities" -> "/referenceData/quantity"

\* C16: mediums, sources and quantities return the empty list and send no
\* request when the label of the branch is none of "RAD", "DOS", "NEU"; when
\* it is one of them they send exactly one GET, without parameters
C16_BranchLookupsSkipOtherLabels ==
    call.op \in BranchLookups =>
        IF call.args.label \notin {"RAD", "DOS", "NEU"}
        THEN result = Returned(<<>>) /\ sent = <<>>
        ELSE sent = <<Request("GET", Endpoint, None, None)>>

C16_Witness ==
    /\ call.op = "IonizingRadiation.mediums"
    /\ call.args = TF_F
    /\ result = Returned(<<>>)
    /\ sent = <<>>

\* the lookups that make entities of the quantity records of the server
QuantityLookups ==
    {"IonizingRadiation.quantities", "ReferenceData.quantities", "KCDB.non_ionizing_quantities"}

\* C20: an entity made of a record whose label is null has the empty string
\* as its label: no lookup of quantities returns an entity whose label is null
C20_NullLabelBecomesEmpty ==
    call.op \in QuantityLookups =>
        \A node \in Nodes :
            /\ node.label # Null
            /\ \A i \in 1..Len(Answer) :
                  Answer[i].id = node.id /\ Answer[i].label = Null => node.label = ""

Filters == {"KCDB.filter", "ReferenceData.filter"}
\* the pattern is found somewhere in the string
Found(string) == search(call.args.pattern, call.args.flags, string)
Kept(item) == Found(item.value) \/ Found(item.label)
\* the number of times x occurs in seq
Count(x, seq) == Cardinality({i \in 1..Len(seq) : seq[i] = x})
\* a is b with some of its elements left out
RECURSIVE IsSubsequence(_, _)
IsSubsequence(a, b) ==
    IF a = <<>> THEN TRUE
    ELSE IF b = <<>> THEN FALSE
    ELSE IF Head(a) = Head(b) THEN IsSubsequence(Tail(a), Tail(b))
    ELSE IsSubsequence(a, Tail(b))
\* p occurs in string as a run of consecutive characters
Substring(p, string) ==
    \E i \in 1..(Len(string) + 1) :
        i + Len(p) - 1 <= Len(string) /\ SubSeq(string, i, i + Len(p) - 1) = p

\* C17: filter(items, pattern) returns the items whose value or whose label
\* holds the pattern somewhere: an item is kept if and only if one of the
\* two matches, the kept items are in the order of the input, and an item
\* that occurs several times is kept as many times
C17_FilterKeepsTheMatchingItems ==
    call.op \in Filters /\ call.args.of = "caller" /\ result.kind = "return" =>
        /\ IsSubsequence(result.value, call.args.data)
        /\ \A item \in Items :
              Count(item, result.value) = IF Kept(item) THEN Count(item, call.args.data) ELSE 0
        /\ call.args.pattern \in {<<"a">>, <<"a", "b">>} /\ call.args.flags = {} =>
              \A item \in Items :
                  Kept(item) <=> \/ Substring(call.args.pattern, item.value)
                                 \/ Substring(call.args.pattern, item.label)

C17_Witness ==
    /\ call.op = "KCDB.filter"
    /\ call.args.pattern = <<"a">> /\ call.args.flags = {}
    /\ call.args.data = <<[id |-> 2, label |-> <<"b", "a">>, value |-> <<"b">>],
                          [id |-> 3, label |-> <<"B">>, value |-> <<>>],
                          [id |-> 2, label |-> <<"b", "a">>, value |-> <<"b">>]>>
    /\ result = Returned(<<[id |-> 2, label |-> <<"b", "a">>, value |-> <<"b">>],
                           [id |-> 2, label |-> <<"b", "a">>, value |-> <<"b">>]>>)

\* C18: filter(filter(items, p), p) = filter(items, p), for the same flags
C18_FilterIsIdempotent ==
    call.op \in Filters /\ call.args.of = "filter" =>
        result = Returned(call.args.data)

C18_Witness ==
    /\ call.op = "KCDB.filter"
    /\ call.args.of = "filter"
    /\ Len(call.args.given) = 3
    /\ Len(call.args.data) = 1
    /\ result = Returned(call.args.data)

\* C19: find(items, id) returns the first item of the sequence whose id is
\* the id given; when there is none it fails, naming the id, and returns
\* neither None nor an item of another id
C19_FindFirstOrFail ==
    call.op = "ReferenceData.find" /\ result.kind # "none" =>
        LET data == call.args.data
            found == {i \in 1..Len(data) : data[i].id = call.args.id}
        IN IF found = {}
           THEN result = Raised("ValueError",
                                "ID " \o ToString(call.args.id) \o " cannot be found")
           ELSE /\ result.kind = "return"
                /\ result.value.id = call.args.id
                /\ \E i \in found : result.value = data[i] /\ \A j \in 1..(i - 1) : j \notin found

C19_Witness ==
    /\ call.op = "ReferenceData.find"
    /\ call.args.id = 2
    /\ call.args.data = <<[id |-> 3, label |-> <<"B">>, value |-> <<>>],
                          [id |-> 2, label |-> <<>>, value |-> <<"a", "b">>],
                          [id |-> 2, label |-> <<"b", "a">>, value |-> <<"b">>]>>
    /\ result = Returned([id |-> 2, label |-> <<>>, value |-> <<"a", "b">>])

\* C21: a services lookup never fails on a record of the answer that has a
\* key besides id, label and value: it returns the entities of the records
\* without that key
C21_ExtraKeyIsIgnored ==
    call.op \in ServicesLookups /\ Answered({200}) =>
        /\ result.kind = "return"
        /\ Records(result.value) = Records(Answer)

\* the classes that parse a page of records, and all that parse a response
PageClasses == {"ResultsIonizingRadiation", "kcdb.ResultsRadiation"}
ResultsClasses == PageClasses \cup {"ResultsQuickSearch"}
\* the elements of a list of the response, none when the key is absent
Elements(key) == Arg(call.args, key, List(<<>>)).items

\* C22: in every record of a parsed page an optional string is "" when its
\* key is absent or null, an optional number is None when its key is absent,
\* and a nested object is made if and only if its JSON value is truthy
C22_OptionalFieldsDefault ==
    call.op \in PageClasses /\ result.kind = "return" =>
        \A i \in 1..Len(result.value.data) :
           LET json == Elements("data")[i].d
               parsed == result.value.data[i]
           IN /\ \A f \in {<<"approval_date", "approvalDate">>, <<"comments", "comments">>,
                           <<"rmo", "rmo">>, <<"source_value", "sourceValue">>} :
                    Arg(json, f[2], None) = None => parsed[f[1]] = Str("")
              /\ \A f \in {<<"confidence_level", "confidenceLevel">>,
                           <<"coverage_factor", "coverageFactor">>} :
                    f[2] \notin DOMAIN json => parsed[f[1]] = None
              /\ \A f \in {<<"cmc", "cmc">>, <<"cmc_base_unit", "cmcBaseUnit">>,
                           <<"cmc_uncertainty", "cmcUncertainty">>,
                           <<"cmc_uncertainty_base_unit", "cmcUncertaintyBaseUnit">>,
                           <<"uncertainty_equation", "uncertaintyEquation">>,
                           <<"uncertainty_mode", "uncertaintyMode">>,
                           <<"uncertainty_table", "uncertaintyTable">>} :
                    parsed[f[1]] # None <=> Truthy(Arg(json, f[2], None))

\* a filter, or a child of it at any depth, has no count or no order
RECURSIVE FilterLacksKey(_)
FilterLacksKey(filter) ==
    \/ {"count", "order"} \ DOMAIN filter # {}
    \/ LET children == Arg(filter, "children", List(<<>>)).items
       IN \E i \in 1..Len(children) : FilterLacksKey(children[i].d)

\* a required key is missing somewhere in the response
RequiredKeyMissing ==
    \/ {"numberOfElements", "pageNumber", "pageSize", "totalElements", "totalPages"}
          \ DOMAIN call.args # {}
    \/ /\ call.op \in PageClasses
       /\ \E i \in 1..Len(Elements("data")) :
             LET d == Elements("data")[i].d
                 table == Arg(d, "uncertaintyTable", None)
             IN \/ "id" \notin DOMAIN d
                \/ Truthy(table) /\ {"tableRows", "tableCols"} \ DOMAIN table.d # {}
    \/ /\ call.op = "ResultsQuickSearch"
       /\ \E i \in 1..Len(Elements("filtersList")) :
             FilterLacksKey(Elements("filtersList")[i].d)

\* C23: when a required key is missing anywhere in a search response (a key
\* of the envelope, the id of a record, tableRows or tableCols of a table,
\* count or order of a filter at any depth) parsing it fails as a whole: it
\* raises, and no results object is returned
C23_MissingRequiredKeyFailsWhole ==
    call.op \in ResultsClasses /\ result.kind # "none" /\ RequiredKeyMissing =>
        result.kind = "raise"

C23_Witness ==
    /\ call.op = "ResultsQuickSearch"
    /\ DOMAIN call.args = {"numberOfElements", "pageNumber", "pageSize", "totalElements",
                           "totalPages", "filtersList"}
    /\ Len(Elements("filtersList")) = 2
    /\ ~FilterLacksKey(Elements("filtersList")[1].d)
    /\ LET second == Elements("filtersList")[2].d
       IN /\ {"count", "order", "children"} \subseteq DOMAIN second
          /\ \A i \in 1..2 : {"count", "order"} \subseteq DOMAIN second.children.items[i].d
          /\ FilterLacksKey(second)
    /\ result = Raised("KeyError", "order")

\* the walks that return the branches of a metrology area
BranchesLookups ==
    {"GeneralPhysics.branches", "IonizingRadiation.branches", "ReferenceData.branches"}

\* the walks of the hierarchy, from a domain down to an individual service
Walkers ==
    {"KCDB.metrology_areas"} \cup BranchesLookups \cup ServicesLookups \cup BranchLookups
    \cup SubServicesLookups \cup IndividualServicesLookups

\* C24: every entity a walker returns holds, by value, the entity the walker
\* was given: a metrology area the domain of the navigator, a branch the
\* metrology area, a service, medium, source or quantity the branch, a
\* sub-service the service, an individual service the sub-service; so an
\* individual service reached by chained walks holds the whole chain of the
\* entities walked, up to the domain
C24_WalkersCarryTheParent ==
    call.op \in Walkers => \A node \in Nodes :
       /\ call.op = "KCDB.metrology_areas" => node.domain = call.args
       /\ call.op \in BranchesLookups => node.metrology_area = call.args
       /\ call.op \in ServicesLookups \cup BranchLookups => node.branch = call.args
       /\ call.op \in SubServicesLookups =>
             node.service = call.args /\ node.service.branch \in Branches
       /\ call.op \in IndividualServicesLookups =>
             /\ node.sub_service = call.args
             /\ node.sub_service.service.branch \in Branches
             /\ node.sub_service.service.branch.metrology_area \in MetrologyAreas
             /\ node.sub_service.service.branch.metrology_area.domain
                   \in {PHYSICS, CHEM_BIO, RADIATION}

C24_Witness ==
    /\ call.op = "GeneralPhysics.individual_services"
    /\ result.kind = "return"
    /\ \E node \in Nodes :
          /\ node.id = 546
          /\ node.sub_service.id = 218
          /\ node.sub_service.service.id = 55
          /\ node.sub_service.service.branch = TF_F
          /\ node.sub_service.service.branch.metrology_area = TF
          /\ node.sub_service.service.branch.metrology_area.domain = PHYSICS

\* the transport gave no answer to the request of the call
NoAnswer == sent # <<>> /\ received = <<>>
\* the failures that tell of a timeout: the one of https and those of requests
TimeoutFailures ==
    {"TimeoutError", "requests.exceptions.ConnectTimeout", "requests.exceptions.ReadTimeout"}
\* the timeout of the navigator as a message shows it
Seconds ==
    IF _timeout = None THEN "None"
    ELSE CASE _timeout.tenths = 0 -> "0.0"
           [] _timeout.tenths = 9 -> "0.9"
           [] _timeout.tenths = 30 -> "3.0"
           [] _timeout.tenths = 300 -> "30.0"

\* C25: a request the transport does not complete fails the call; when the
\* transport reported a timeout the failure is the TimeoutError whose message
\* is "No reply from KCDB server after <timeout> seconds", with the timeout
\* of the navigator, and any other failure is not a timeout failure
C25_TimeoutIsADistinctFailure ==
    NoAnswer =>
        /\ result.kind = "raise"
        /\ result.exc \in TimeoutFailures =>
              /\ result.exc = "TimeoutError"
              /\ result.msg = "No reply from KCDB server after " \o Seconds \o " seconds"

\* C26: a call sends at most one request, receives at most one answer, and a
\* call whose request failed ends without a second request
C26_AtMostOneRequest ==
    /\ Len(sent) <= 1
    /\ Len(received) <= Len(sent)
    /\ NoAnswer \/ Answered(400..599) => Len(sent) = 1 /\ result.kind \in {"raise", "return"}

C26_Witness ==
    /\ call.op = "KCDB.non_ionizing_quantities"
    /\ NoAnswer
    /\ Len(sent) = 1
    /\ result.kind = "raise" /\ result.exc = "TimeoutError"

\* C27: the timeout a navigator holds is None or a float that is not
\* negative: assigning None or a negative number stores None, assigning a
\* number v >= 0, int or float, stores float(v)
C27_TimeoutIsNoneOrNonNegativeFloat ==
    /\ _timeout = None \/ (_timeout.t = "float" /\ _timeout.tenths >= 0)
    /\ call.op = "KCDB.timeout" =>
          IF call.args = None THEN _timeout = None
          ELSE IF call.args.t = "int"
          THEN IF call.args.n < 0 THEN _timeout = None
               ELSE _timeout = [t |-> "float", tenths |-> 10 * call.args.n]
          ELSE IF call.args.tenths < 0 THEN _timeout = None
               ELSE _timeout = call.args

C27_Witness ==
    /\ call.op = "KCDB.timeout"
    /\ call.args = PyInt(0)
    /\ _timeout = [t |-> "float", tenths |-> 0]

\* C28: only the setter changes the timeout of a navigator: every other call
\* leaves it as it was, whether it returns or raises, and every request goes
\* out with the timeout the navigator holds, the one assigned last
C28_OnlyTheSetterChangesTheTimeout ==
    [][/\ call'.op # "KCDB.timeout" => _timeout' = _timeout
       /\ sent' # <<>> => sent'[1].timeout = _timeout]_vars

C28_Witness ==
    /\ call.op = "KCDB.non_ionizing_quantities"
    /\ sent # <<>>
    /\ sent[1].timeout = [t |-> "float", tenths |-> 9]
    /\ _timeout = [t |-> "float", tenths |-> 9]
    /\ result.kind = "raise"

\* the three branches of ionizing radiation
RadiationBranches == {RAD, DOS, NEU}

\* what the lookup of the call returns for branch b from the answer the call
\* received: the result of the call itself for its own branch
ForBranch(b) ==
    IF b = call.args THEN result
    ELSE IF call.op = "IonizingRadiation.mediums"
    THEN IonizingRadiation_mediums(b, received[1]).result
    ELSE IF call.op = "IonizingRadiation.sources"
    THEN IonizingRadiation_sources(b, received[1]).result
    ELSE IonizingRadiation_quantities(b, received[1]).result

\* the records of the answer that the lookup attributes to branch b
Attributed(b) == Records(ForBranch(b).value)

\* C29: the results of mediums (and of sources) for RAD, DOS and NEU from
\* one list of the server are pairwise disjoint and hold every record of the
\* list exactly once, whatever the ids
C29_BranchesPartitionTheList ==
    /\ call.op \in {"IonizingRadiation.mediums", "IonizingRadiation.sources"}
    /\ call.args \in RadiationBranches
    /\ Answered({200})
    => /\ \A b \in RadiationBranches :
             ForBranch(b).kind = "return" /\ IsSubsequence(Attributed(b), Answer)
       /\ \A i \in 1..Len(Answer) :
             \E b \in RadiationBranches :
                /\ Count(Answer[i], Attributed(b)) = Count(Answer[i], Answer)
                /\ \A other \in RadiationBranches \ {b} :
                      Count(Answer[i], Attributed(other)) = 0

C29_Witness ==
    /\ call.op = "IonizingRadiation.mediums"
    /\ call.args = DOS
    /\ Answered({200})
    /\ Ids(Answer) = <<5, 16, 17, 23, 24, 30>>
    /\ Ids(Attributed(RAD)) = <<5, 16>>
    /\ Ids(Records(result.value)) = <<17, 23>>
    /\ Ids(Attributed(NEU)) = <<24, 30>>

\* the quantities without a label that non_ionizing_quantities returns from
\* the answer the call received
NonIonizing == KCDB_non_ionizing_quantities(received[1]).result.value

\* C30: every record of the quantity list of the server is returned by
\* exactly one of quantities(DOS), quantities(RAD), quantities(NEU) and
\* non_ionizing_quantities(): none by two of them, none by none
C30_QuantitiesPartitionTheList ==
    /\ call.op = "IonizingRadiation.quantities"
    /\ call.args \in RadiationBranches
    /\ Answered({200})
    => \A i \in 1..Len(Answer) :
          Cardinality({b \in RadiationBranches : Count(Answer[i], Attributed(b)) > 0})
             + (IF \E j \in 1..Len(NonIonizing) : NonIonizing[j].id = Answer[i].id
                THEN 1 ELSE 0) = 1

====
